---- MODULE Spec2Model ----
(***************************************************************************)
(* Carbon-footprint calculator of k8scarbonfootprint                       *)
(* (pkg/carbon/calculator.go): the four scope operations of                *)
(* carbonCalculator, the two energy models and the providers they call.    *)
(*                                                                         *)
(* float64 values are modelled as exact numbers (n/d) * 2^e together with  *)
(* the IEEE-754 special values NaN, +Inf and -Inf.  Rounding of the binary *)
(* representation is not modelled: a decimal literal of the source such as *)
(* 0.3 stands for the rational 3/10.  Division follows IEEE-754: x/0 is    *)
(* +Inf or -Inf by the sign of x, 0/0 is NaN, and every ordered comparison *)
(* with NaN is false.                                                      *)
(***************************************************************************)
EXTENDS Integers, Sequences, FiniteSets, TLC

(***************************************************************************)
(* float64 arithmetic                                                      *)
(***************************************************************************)
Abs(x) == IF x < 0 THEN -x ELSE x

RECURSIVE Gcd(_, _)
Gcd(a, b) == IF b = 0 THEN a ELSE Gcd(b, a % b)

RECURSIVE Pow2(_)
Pow2(k) == IF k = 0 THEN 1 ELSE 2 * Pow2(k - 1)

RECURSIVE Twos(_)
Twos(x) == IF x % 2 = 0 THEN 1 + Twos(x \div 2) ELSE 0

NaN == [k |-> "nan", n |-> 0, d |-> 1, e |-> 0]

PInf == [k |-> "inf", n |-> 1, d |-> 1, e |-> 0]

NInf == [k |-> "inf", n |-> -1, d |-> 1, e |-> 0]

Zero == [k |-> "fin", n |-> 0, d |-> 1, e |-> 0]

\* The finite value (n/d) * 2^e in normal form: d > 0, n and d odd and
\* coprime; zero is 0/1 * 2^0.
Norm(n, d, e) ==
    IF n = 0 THEN Zero
    ELSE LET s  == IF d < 0 THEN -1 ELSE 1
             g  == Gcd(Abs(n), Abs(d))
             n1 == (s * n) \div g
             d1 == (s * d) \div g
             tn == Twos(n1)
             td == Twos(d1)
         IN  [k |-> "fin", n |-> n1 \div Pow2(tn), d |-> d1 \div Pow2(td),
              e |-> e + tn - td]

\* float64(i) of an integer, and the decimal literal n/d.
F(i) == Norm(i, 1, 0)

Dec(n, d) == Norm(n, d, 0)

IsFin(a) == a.k = "fin"

IsNaN(a) == a.k = "nan"

Sign(a) == IF a.n > 0 THEN 1 ELSE IF a.n < 0 THEN -1 ELSE 0

FNeg(a) == IF IsNaN(a) THEN NaN ELSE [a EXCEPT !.n = -a.n]

FAdd(a, b) ==
    IF IsNaN(a) \/ IsNaN(b) THEN NaN
    ELSE IF a.k = "inf" /\ b.k = "inf" THEN (IF a.n = b.n THEN a ELSE NaN)
    ELSE IF a.k = "inf" THEN a
    ELSE IF b.k = "inf" THEN b
    ELSE IF a.n = 0 THEN b
    ELSE IF b.n = 0 THEN a
    ELSE LET e  == IF a.e < b.e THEN a.e ELSE b.e
             l  == (a.d \div Gcd(a.d, b.d)) * b.d
             na == a.n * Pow2(a.e - e) * (l \div a.d)
             nb == b.n * Pow2(b.e - e) * (l \div b.d)
         IN  Norm(na + nb, l, e)

FMul(a, b) ==
    IF IsNaN(a) \/ IsNaN(b) THEN NaN
    ELSE IF a.k = "inf" \/ b.k = "inf"
         THEN (IF Sign(a) * Sign(b) = 0 THEN NaN
               ELSE IF Sign(a) * Sign(b) > 0 THEN PInf ELSE NInf)
    ELSE IF a.n = 0 \/ b.n = 0 THEN Zero
    ELSE LET g1 == Gcd(Abs(a.n), b.d)
             g2 == Gcd(Abs(b.n), a.d)
         IN  [k |-> "fin",
              n |-> (a.n \div g1) * (b.n \div g2),
              d |-> (a.d \div g2) * (b.d \div g1),
              e |-> a.e + b.e]

FDiv(a, b) ==
    IF IsNaN(a) \/ IsNaN(b) THEN NaN
    ELSE IF b.k = "inf"
         THEN (IF a.k = "inf" THEN NaN ELSE Zero)
    ELSE IF b.n = 0
         THEN (IF Sign(a) = 0 THEN NaN
               ELSE IF Sign(a) > 0 THEN PInf ELSE NInf)
    ELSE FMul(a, [k |-> "fin", n |-> Sign(b) * b.d, d |-> Abs(b.n),
                  e |-> -b.e])

\* a > b and a < b of float64: false when either side is NaN.
FGt(a, b) ==
    IF IsNaN(a) \/ IsNaN(b) THEN FALSE
    ELSE IF a = b THEN FALSE
    ELSE IF a.k = "inf" THEN a.n > 0
    ELSE IF b.k = "inf" THEN b.n < 0
    ELSE Sign(FAdd(a, FNeg(b))) > 0

FLt(a, b) == FGt(b, a)

FLe(a, b) == IF IsNaN(a) \/ IsNaN(b) THEN FALSE ELSE ~FGt(a, b)

(***************************************************************************)
(* Bounds of the model                                                     *)
(***************************************************************************)
MaxPods == 2

MaxNodes == 2

MaxContainers == 2

(***************************************************************************)
(* Kubernetes descriptors (corev1.Node, corev1.Pod, corev1.Namespace)      *)
(* A CPU quantity is a number of millicores and a memory quantity a number *)
(* of MiB, as the tests write them ("500m", "256Mi").  The descriptors are *)
(* those the Kubernetes API serves: requests are not negative and a node   *)
(* has a positive CPU and memory capacity.                                 *)
(***************************************************************************)
NoLabels == [key \in {} |-> ""]

\* Quantity.MilliValue() of a CPU quantity.
MilliValue(cpu) == cpu

\* float64(Quantity.Value()) of a memory quantity: bytes.
Value(memory) == Norm(memory, 1, 20)

\* A map read labels[key]: the empty string when the key is absent.
Get(labels, key) == IF key \in DOMAIN labels THEN labels[key] ELSE ""

Container(cpu, memory) == [cpu |-> cpu, memory |-> memory]

Pod(name, namespace, nodeName, containers) ==
    [Name |-> name, Namespace |-> namespace, NodeName |-> nodeName,
     Labels |-> [key \in {"app"} |-> "test-app"], Containers |-> containers]

Node(name, labels, cpu, memory) ==
    [Name |-> name, Labels |-> labels,
     Capacity |-> [cpu |-> cpu, memory |-> memory]]

\* createTestNodes, and a node without instance-type labels.
Nodes ==
    { Node("test-node-1",
           [key \in {"beta.kubernetes.io/instance-type",
                     "topology.kubernetes.io/zone"} |->
              IF key = "topology.kubernetes.io/zone" THEN "us-west-2a"
              ELSE "m5.large"],
           2000, 8192),
      Node("test-node-2",
           [key \in {"node.kubernetes.io/instance-type",
                     "topology.kubernetes.io/zone"} |->
              IF key = "topology.kubernetes.io/zone" THEN "us-west-2b"
              ELSE "m5.xlarge"],
           4000, 16384),
      Node("test-node-3", NoLabels, 2000, 4096) }

NodeNames == {"", "test-node-1", "test-node-2"}

NamespaceNames == {"production", "development"}

Namespaces ==
    { [Name |-> "production",
       Labels |-> [key \in {"environment"} |-> "test"]],
      [Name |-> "development", Labels |-> NoLabels],
      [Name |-> "test-namespace",
       Labels |-> [key \in {"environment"} |-> "test"]] }

Containers == { Container(c, m) : c \in {0, 500, 1000}, m \in {0, 1024} }

SeqsUpTo(S, n) == UNION { [1..k -> S] : k \in 0..n }

\* Lists of distinct descriptors: a cluster lists a node or a pod once.
DistinctSeqsUpTo(S, n) ==
    { s \in SeqsUpTo(S, n) : \A i, j \in 1..Len(s) : s[i] = s[j] => i = j }

\* The pods CalculatePodCarbon is called with.
Pods ==
    { Pod("test-pod-1", ns, nn, cs) :
        ns \in NamespaceNames, nn \in NodeNames,
        cs \in SeqsUpTo(Containers, MaxContainers) }

\* The pods of a cluster, after createTestPods: scheduled and unscheduled
\* pods of two namespaces on two nodes, one of them with two containers.
ClusterPods ==
    { Pod("test-pod-1", "production", "test-node-1",
          <<Container(500, 1024)>>),
      Pod("test-pod-2", "production", "test-node-1",
          <<Container(250, 512), Container(250, 0)>>),
      Pod("test-pod-3", "development", "test-node-1",
          <<Container(2000, 256)>>),
      Pod("test-pod-4", "development", "test-node-2",
          <<Container(1000, 1024)>>),
      Pod("pending-pod", "production", "", <<Container(500, 1024)>>) }

PodLists == DistinctSeqsUpTo(ClusterPods, MaxPods)

NodeLists == DistinctSeqsUpTo(Nodes, MaxNodes)

(***************************************************************************)
(* Configuration and providers                                             *)
(***************************************************************************)
\* CarbonConfig: PUE (1.0 and the 1.5 of the tests) and DefaultGridIntensity
\* (gCO2/kWh, positive).
Configs ==
    { [PUE |-> p, DefaultGridIntensity |-> F(500)] :
        p \in {F(1), Dec(3, 2)} }

\* What GridIntensityProvider.GetGridIntensity returns: (value, err), the
\* value of a successful lookup being positive.
GridOutcomes ==
    { [err |-> TRUE, value |-> Zero],
      [err |-> FALSE, value |-> F(400)] }

InstanceSpecs(instanceType, vcpus, memoryGB, tdp) ==
    [InstanceType |-> instanceType, VCPUs |-> vcpus, MemoryGB |-> memoryGB,
     TDP |-> tdp]

\* What InstanceSpecProvider.GetInstanceSpecs returns: (specs, err).
SpecOutcomes ==
    { [err |-> TRUE, specs |-> InstanceSpecs("", 0, 0, 0)],
      [err |-> FALSE, specs |-> InstanceSpecs("m5.large", 2, 8, 200)] }

\* The reading of time.Now() a call takes.
Times == {1}

(***************************************************************************)
(* carbonCalculator                                                        *)
(***************************************************************************)
NoErr == <<>>

Metrics(time, type, name, namespace, nodeName, co2, energy, grid, src, labels) ==
    [Timestamp |-> time, ResourceType |-> type, ResourceName |-> name,
     Namespace |-> namespace, NodeName |-> nodeName, CO2Emissions |-> co2,
     EnergyConsumption |-> energy, GridIntensity |-> grid, Source |-> src,
     Labels |-> labels]

\* The instance type read from the node labels.
InstanceTypeOf(node) ==
    IF "beta.kubernetes.io/instance-type" \in DOMAIN node.Labels
    THEN node.Labels["beta.kubernetes.io/instance-type"]
    ELSE IF "node.kubernetes.io/instance-type" \in DOMAIN node.Labels
    THEN node.Labels["node.kubernetes.io/instance-type"]
    ELSE "unknown"

\* Variant: the specs of the failed lookup are used as they are.
ResolveSpecsNoFallback(instanceType, lookup) == lookup.specs

\* The specs in use after GetInstanceSpecs returned lookup: the fallback
\* when the lookup failed.
ResolveSpecs(instanceType, lookup) ==
    IF lookup.err THEN InstanceSpecs(instanceType, 2, 4, 100)
    ELSE lookup.specs

\* The loop over the containers of one pod, adding their CPU and memory
\* requests to the running totals.
RECURSIVE AddContainerRequests(_, _, _)
AddContainerRequests(containers, i, total) ==
    IF i > Len(containers) THEN total
    ELSE AddContainerRequests(containers, i + 1,
            [cpu |-> FAdd(total.cpu, F(MilliValue(containers[i].cpu))),
             memory |-> FAdd(total.memory, Value(containers[i].memory))])

\* Variant: the requests of every pod are added, whatever its node.
RECURSIVE AddNodePodRequestsUnfiltered(_, _, _, _)
AddNodePodRequestsUnfiltered(node, pods, i, total) ==
    IF i > Len(pods) THEN total
    ELSE AddNodePodRequestsUnfiltered(node, pods, i + 1,
            AddContainerRequests(pods[i].Containers, 1, total))

\* The loop over the pods in calculateNodeEnergyConsumption: pods of other
\* nodes are passed over.
RECURSIVE AddNodePodRequests(_, _, _, _)
AddNodePodRequests(node, pods, i, total) ==
    IF i > Len(pods) THEN total
    ELSE IF pods[i].NodeName # node.Name
    THEN AddNodePodRequests(node, pods, i + 1, total)
    ELSE AddNodePodRequests(node, pods, i + 1,
            AddContainerRequests(pods[i].Containers, 1, total))

\* Variant: the utilization is not capped.
CapUtilizationMissing(utilization) == utilization

\* if utilization > 1.0 { utilization = 1.0 }
CapUtilization(utilization) ==
    IF FGt(utilization, F(1)) THEN F(1) ELSE utilization

\* Variant: the idle and the load share are exchanged.
UtilizationFactorSwapped(cpuUtilization) ==
    FAdd(Dec(7, 10), FMul(Dec(3, 10), cpuUtilization))

\* utilizationFactor := 0.3 + (0.7 * cpuUtilization)
UtilizationFactor(cpuUtilization) ==
    FAdd(Dec(3, 10), FMul(Dec(7, 10), cpuUtilization))

\* Variant: the utilization factor is driven by the mean of the CPU and the
\* memory utilization.
calculateNodeEnergyConsumptionMemorySignal(node, pods, lookup) ==
    LET specs == ResolveSpecs(InstanceTypeOf(node), lookup)
        total == AddNodePodRequests(node, pods, 1,
                                    [cpu |-> Zero, memory |-> Zero])
        cpuUtilization ==
            CapUtilization(FDiv(total.cpu, F(MilliValue(node.Capacity.cpu))))
        memoryUtilization ==
            CapUtilization(FDiv(total.memory, Value(node.Capacity.memory)))
        energyWatts ==
            FMul(F(specs.TDP),
                 UtilizationFactor(FDiv(FAdd(cpuUtilization,
                                             memoryUtilization), F(2))))
    IN  [val |-> FDiv(energyWatts, F(1000)), err |-> NoErr]

\* The CPU utilization ratio of calculateNodeEnergyConsumption: the summed
\* CPU requests over the CPU capacity, capped.
NodeCPUUtilization(node, pods) ==
    LET total == AddNodePodRequests(node, pods, 1,
                                    [cpu |-> Zero, memory |-> Zero])
        nodeCPUCapacity == F(MilliValue(node.Capacity.cpu))
    IN  CapUtilization(FDiv(total.cpu, nodeCPUCapacity))

calculateNodeEnergyConsumption(node, pods, lookup) ==
    LET specs == ResolveSpecs(InstanceTypeOf(node), lookup)
        baseEnergyWatts == F(specs.TDP)
        total == AddNodePodRequests(node, pods, 1,
                                    [cpu |-> Zero, memory |-> Zero])
        cpuUtilization == NodeCPUUtilization(node, pods)
        nodeMemoryCapacity == Value(node.Capacity.memory)
        memoryUtilization ==
            CapUtilization(FDiv(total.memory, nodeMemoryCapacity))
        energyWatts == FMul(baseEnergyWatts, UtilizationFactor(cpuUtilization))
        energyKWh == FDiv(energyWatts, F(1000))
    IN  [val |-> energyKWh, err |-> NoErr]

\* Variant: memory is divided by 10^9 (GB) instead of 2^30 (GiB).
calculatePodEnergyConsumptionDecimalGB(pod) ==
    IF pod.NodeName = ""
    THEN [val |-> Zero,
          err |-> <<"pod", pod.Namespace, pod.Name,
                    "is not scheduled to a node">>]
    ELSE LET total == AddContainerRequests(pod.Containers, 1,
                                           [cpu |-> Zero, memory |-> Zero])
             cpuEnergyWatts == FMul(FDiv(total.cpu, F(1000)), Dec(5, 2))
             memoryEnergyWatts ==
                 FMul(FDiv(total.memory, F(1000 * 1000 * 1000)),
                      Dec(375, 1000))
         IN  [val |-> FDiv(FAdd(cpuEnergyWatts, memoryEnergyWatts), F(1000)),
              err |-> NoErr]

\* Variant: the CPU term is computed from the memory total.
calculatePodEnergyConsumptionCPUFromMemory(pod) ==
    IF pod.NodeName = ""
    THEN [val |-> Zero,
          err |-> <<"pod", pod.Namespace, pod.Name,
                    "is not scheduled to a node">>]
    ELSE LET total == AddContainerRequests(pod.Containers, 1,
                                           [cpu |-> Zero, memory |-> Zero])
             cpuEnergyWatts ==
                 FMul(FDiv(total.memory, F(1024 * 1024 * 1024)), Dec(5, 2))
             memoryEnergyWatts ==
                 FMul(FDiv(total.memory, F(1024 * 1024 * 1024)),
                      Dec(375, 1000))
         IN  [val |-> FDiv(FAdd(cpuEnergyWatts, memoryEnergyWatts), F(1000)),
              err |-> NoErr]

\* Variant: the check for an unscheduled pod is missing.
calculatePodEnergyConsumptionNoCheck(pod) ==
    LET total == AddContainerRequests(pod.Containers, 1,
                                      [cpu |-> Zero, memory |-> Zero])
        cpuEnergyWatts == FMul(FDiv(total.cpu, F(1000)), Dec(5, 2))
        memoryEnergyWatts ==
            FMul(FDiv(total.memory, F(1024 * 1024 * 1024)), Dec(375, 1000))
    IN  [val |-> FDiv(FAdd(cpuEnergyWatts, memoryEnergyWatts), F(1000)),
         err |-> NoErr]

calculatePodEnergyConsumption(pod) ==
    IF pod.NodeName = ""
    THEN [val |-> Zero,
          err |-> <<"pod", pod.Namespace, pod.Name,
                    "is not scheduled to a node">>]
    ELSE LET total == AddContainerRequests(pod.Containers, 1,
                                           [cpu |-> Zero, memory |-> Zero])
             cpuEnergyWatts == FMul(FDiv(total.cpu, F(1000)), Dec(5, 2))
             memoryEnergyWatts ==
                 FMul(FDiv(total.memory, F(1024 * 1024 * 1024)),
                      Dec(375, 1000))
             totalEnergyWatts == FAdd(cpuEnergyWatts, memoryEnergyWatts)
             energyKWh == FDiv(totalEnergyWatts, F(1000))
         IN  [val |-> energyKWh, err |-> NoErr]

\* Variant: the value the failed lookup returned is used as it is.
ResolveGridIntensityNoFallback(cfg, grid) == grid.value

\* gridIntensity, err := GetGridIntensity(...); if err != nil { default }
ResolveGridIntensity(cfg, grid) ==
    IF grid.err THEN cfg.DefaultGridIntensity ELSE grid.value

\* Variant: PUE is added to the energy instead of multiplying it.
EmissionsPUEAdded(cfg, energy, gridIntensity) ==
    LET scaled == FAdd(energy, cfg.PUE)
    IN  [energy |-> scaled, co2 |-> FMul(scaled, gridIntensity)]

\* Variant: the mass is computed from the energy before PUE is applied.
EmissionsMassBeforePUE(cfg, energy, gridIntensity) ==
    [energy |-> FMul(energy, cfg.PUE), co2 |-> FMul(energy, gridIntensity)]

\* energy *= c.config.PUE; co2 = energy * gridIntensity
Emissions(cfg, energy, gridIntensity) ==
    LET scaled == FMul(energy, cfg.PUE)
    IN  [energy |-> scaled, co2 |-> FMul(scaled, gridIntensity)]

\* The loop over the nodes in CalculateClusterCarbon; lookups[i] is what
\* GetInstanceSpecs returns for the i-th node.
RECURSIVE SumNodeEnergy(_, _, _, _, _)
SumNodeEnergy(nodes, pods, lookups, i, totalEnergy) ==
    IF i > Len(nodes) THEN totalEnergy
    ELSE LET r == calculateNodeEnergyConsumption(nodes[i], pods, lookups[i])
         IN  IF r.err # NoErr
             THEN SumNodeEnergy(nodes, pods, lookups, i + 1, totalEnergy)
             ELSE SumNodeEnergy(nodes, pods, lookups, i + 1,
                                FAdd(totalEnergy, r.val))

ClusterCarbon(cfg, now, nodes, pods, lookups, grid) ==
    LET summed == SumNodeEnergy(nodes, pods, lookups, 1, Zero)
        gridIntensity == ResolveGridIntensity(cfg, grid)
        total == Emissions(cfg, summed, gridIntensity)
    IN  [metrics |-> <<Metrics(now, "cluster", "cluster", "", "", total.co2,
                               total.energy, gridIntensity, "calculated",
                               NoLabels)>>,
         err |-> NoErr]

\* Variant: the pods are not filtered by namespace.
FilterNamespacePodsAll(namespace, pods) == pods

\* The pods of the namespace, in input order.
FilterNamespacePods(namespace, pods) ==
    SelectSeq(pods, LAMBDA pod : pod.Namespace = namespace.Name)

\* The loop over the namespace pods: a pod whose estimate fails is skipped.
RECURSIVE SumPodEnergy(_, _, _)
SumPodEnergy(namespacePods, i, totalEnergy) ==
    IF i > Len(namespacePods) THEN totalEnergy
    ELSE LET r == calculatePodEnergyConsumption(namespacePods[i])
         IN  IF r.err # NoErr
             THEN SumPodEnergy(namespacePods, i + 1, totalEnergy)
             ELSE SumPodEnergy(namespacePods, i + 1,
                               FAdd(totalEnergy, r.val))

NamespaceCarbon(cfg, now, namespace, pods, grid) ==
    LET namespacePods == FilterNamespacePods(namespace, pods)
        summed == SumPodEnergy(namespacePods, 1, Zero)
        gridIntensity == ResolveGridIntensity(cfg, grid)
        total == Emissions(cfg, summed, gridIntensity)
    IN  [metrics |-> <<Metrics(now, "namespace", namespace.Name,
                               namespace.Name, "", total.co2, total.energy,
                               gridIntensity, "calculated",
                               namespace.Labels)>>,
         err |-> NoErr]

\* The pods on the node, in input order.
FilterNodePods(node, pods) ==
    SelectSeq(pods, LAMBDA pod : pod.NodeName = node.Name)

\* Variant: the node.kubernetes.io label is read before the beta label.
NodeLabelsStableFirst(node) ==
    [key \in {"instance-type", "zone"} |->
        IF key = "zone" THEN Get(node.Labels, "topology.kubernetes.io/zone")
        ELSE IF "node.kubernetes.io/instance-type" \in DOMAIN node.Labels
        THEN node.Labels["node.kubernetes.io/instance-type"]
        ELSE IF "beta.kubernetes.io/instance-type" \in DOMAIN node.Labels
        THEN node.Labels["beta.kubernetes.io/instance-type"]
        ELSE "unknown"]

NodeLabels(node) ==
    [key \in {"instance-type", "zone"} |->
        IF key = "instance-type" THEN InstanceTypeOf(node)
        ELSE Get(node.Labels, "topology.kubernetes.io/zone")]

\* Variant: the node metric does not carry the node's name in NodeName.
NodeCarbonNoNodeName(cfg, now, node, pods, lookup, grid) ==
    LET r == calculateNodeEnergyConsumption(node, FilterNodePods(node, pods),
                                            lookup)
        gridIntensity == ResolveGridIntensity(cfg, grid)
        total == Emissions(cfg, r.val, gridIntensity)
    IN  [metrics |-> <<Metrics(now, "node", node.Name, "", "", total.co2,
                               total.energy, gridIntensity, "calculated",
                               NodeLabels(node))>>,
         err |-> NoErr]

NodeCarbon(cfg, now, node, pods, lookup, grid) ==
    LET nodePods == FilterNodePods(node, pods)
        r == calculateNodeEnergyConsumption(node, nodePods, lookup)
        gridIntensity == ResolveGridIntensity(cfg, grid)
        total == Emissions(cfg, r.val, gridIntensity)
    IN  IF r.err # NoErr THEN [metrics |-> <<>>, err |-> r.err]
        ELSE [metrics |-> <<Metrics(now, "node", node.Name, "", node.Name,
                                    total.co2, total.energy, gridIntensity,
                                    "calculated", NodeLabels(node))>>,
              err |-> NoErr]

PodCarbon(cfg, now, pod, grid) ==
    LET r == calculatePodEnergyConsumption(pod)
        gridIntensity == ResolveGridIntensity(cfg, grid)
        total == Emissions(cfg, r.val, gridIntensity)
    IN  IF r.err # NoErr THEN [metrics |-> <<>>, err |-> r.err]
        ELSE [metrics |-> <<Metrics(now, "pod", pod.Name, pod.Namespace,
                                    pod.NodeName, total.co2, total.energy,
                                    gridIntensity, "calculated",
                                    pod.Labels)>>,
              err |-> NoErr]

(***************************************************************************)
(* State: one calculator built by NewCarbonCalculator(config), the call    *)
(* in progress and what it returned.                                       *)
(***************************************************************************)
VARIABLES config, pc, call, ret

vars == <<config, pc, call, ret>>

NoCall == [op |-> "none"]

NoRet == [metrics |-> <<>>, err |-> NoErr]

Init ==
    /\ config \in Configs
    /\ pc = "idle"
    /\ call = NoCall
    /\ ret = NoRet

CalculateClusterCarbon(now, nodes, pods, lookups, grid) ==
    /\ pc = "idle"
    /\ call' = [op |-> "cluster", now |-> now, nodes |-> nodes,
                pods |-> pods, lookups |-> lookups, grid |-> grid]
    /\ ret' = ClusterCarbon(config, now, nodes, pods, lookups, grid)
    /\ pc' = "done"
    /\ UNCHANGED config

CalculateNamespaceCarbon(now, namespace, pods, grid) ==
    /\ pc = "idle"
    /\ call' = [op |-> "namespace", now |-> now, namespace |-> namespace,
                pods |-> pods, grid |-> grid]
    /\ ret' = NamespaceCarbon(config, now, namespace, pods, grid)
    /\ pc' = "done"
    /\ UNCHANGED config

CalculateNodeCarbon(now, node, pods, lookup, grid) ==
    /\ pc = "idle"
    /\ call' = [op |-> "node", now |-> now, node |-> node, pods |-> pods,
                lookup |-> lookup, grid |-> grid]
    /\ ret' = NodeCarbon(config, now, node, pods, lookup, grid)
    /\ pc' = "done"
    /\ UNCHANGED config

CalculatePodCarbon(now, pod, grid) ==
    /\ pc = "idle"
    /\ call' = [op |-> "pod", now |-> now, pod |-> pod, grid |-> grid]
    /\ ret' = PodCarbon(config, now, pod, grid)
    /\ pc' = "done"
    /\ UNCHANGED config

\* The caller takes the result; the calculator is ready for the next call.
Return ==
    /\ pc = "done"
    /\ pc' = "idle"
    /\ call' = NoCall
    /\ ret' = NoRet
    /\ UNCHANGED config

\* A call is made with the calculator at rest: the inputs of the four
\* operations are drawn only then.
Next ==
    \/ /\ pc = "idle"
       /\ \E now \in Times, nodes \in NodeLists, pods \in PodLists,
             grid \in GridOutcomes :
             \E lookups \in [1..Len(nodes) -> SpecOutcomes] :
                CalculateClusterCarbon(now, nodes, pods, lookups, grid)
    \/ /\ pc = "idle"
       /\ \E now \in Times, namespace \in Namespaces, pods \in PodLists,
             grid \in GridOutcomes :
             CalculateNamespaceCarbon(now, namespace, pods, grid)
    \/ /\ pc = "idle"
       /\ \E now \in Times, node \in Nodes, pods \in PodLists,
             lookup \in SpecOutcomes, grid \in GridOutcomes :
             CalculateNodeCarbon(now, node, pods, lookup, grid)
    \/ /\ pc = "idle"
       /\ \E now \in Times, pod \in Pods \cup ClusterPods,
             grid \in GridOutcomes :
             CalculatePodCarbon(now, pod, grid)
    \/ Return

Spec == Init /\ [][Next]_vars

(***************************************************************************)
(* Properties                                                              *)
(***************************************************************************)
Returned(op) == pc = "done" /\ call.op = op

Succeeded(op) == Returned(op) /\ ret.err = NoErr

\* Requests of a pod as integers: millicores and MiB summed over containers.
RECURSIVE SumOver(_, _)
SumOver(seq, field) ==
    IF seq = <<>> THEN 0
    ELSE Head(seq)[field] + SumOver(Tail(seq), field)

CPURequested(pod) == SumOver(pod.Containers, "cpu")

MemoryRequested(pod) == SumOver(pod.Containers, "memory")

\* Pod model, kWh for one hour before PUE:
\* ((millicores / 1000) * 2.5 + (bytes / 2^30) * 0.375) / 1000.
PodModelKWh(pod) ==
    FDiv(FAdd(FMul(FDiv(F(CPURequested(pod)), F(1000)), Dec(25, 10)),
              FMul(FDiv(Norm(MemoryRequested(pod), 1, 20), Norm(1, 1, 30)),
                   Dec(375, 1000))),
         F(1000))

\* The energy a call computed before PUE was applied.
RawEnergy ==
    CASE call.op = "cluster" ->
           SumNodeEnergy(call.nodes, call.pods, call.lookups, 1, Zero)
      [] call.op = "namespace" ->
           SumPodEnergy(FilterNamespacePods(call.namespace, call.pods), 1,
                        Zero)
      [] call.op = "node" ->
           calculateNodeEnergyConsumption(
               call.node, FilterNodePods(call.node, call.pods),
               call.lookup).val
      [] call.op = "pod" -> calculatePodEnergyConsumption(call.pod).val

\* C1: every metric a scope operation produces has CO2Emissions equal to
\* EnergyConsumption times GridIntensity, and EnergyConsumption is the
\* energy of the scope multiplied by PUE.
C1_MassIdentity ==
    pc = "done" =>
        \A i \in 1..Len(ret.metrics) :
            /\ ret.metrics[i].CO2Emissions =
                   FMul(ret.metrics[i].EnergyConsumption,
                        ret.metrics[i].GridIntensity)
            /\ ret.metrics[i].EnergyConsumption = FMul(RawEnergy, config.PUE)

C1_Witness ==
    /\ Succeeded("namespace")
    /\ config.PUE = Dec(3, 2)
    /\ Len(ret.metrics) = 1
    /\ FGt(ret.metrics[1].CO2Emissions, Zero)

\* C2: a successful call of a scope operation returns exactly one metric,
\* whose ResourceType is the scope called and whose ResourceName, Namespace
\* and NodeName identify the resource passed in.
C2_OneMetricOfScope ==
    (pc = "done" /\ ret.err = NoErr) =>
        /\ Len(ret.metrics) = 1
        /\ ret.metrics[1].ResourceType = call.op
        /\ call.op = "cluster" =>
               /\ ret.metrics[1].ResourceName = "cluster"
               /\ ret.metrics[1].Namespace = ""
               /\ ret.metrics[1].NodeName = ""
        /\ call.op = "namespace" =>
               /\ ret.metrics[1].ResourceName = call.namespace.Name
               /\ ret.metrics[1].Namespace = call.namespace.Name
               /\ ret.metrics[1].NodeName = ""
        /\ call.op = "node" =>
               /\ ret.metrics[1].ResourceName = call.node.Name
               /\ ret.metrics[1].NodeName = call.node.Name
               /\ ret.metrics[1].Namespace = ""
        /\ call.op = "pod" =>
               /\ ret.metrics[1].ResourceName = call.pod.Name
               /\ ret.metrics[1].Namespace = call.pod.Namespace
               /\ ret.metrics[1].NodeName = call.pod.NodeName

C2_Witness ==
    /\ Succeeded("node")
    /\ call.node.Name = "test-node-2"
    /\ Len(call.pods) = 2
    /\ ret.metrics[1].NodeName = "test-node-2"

\* C3: CalculatePodCarbon of a pod with an empty NodeName returns an error
\* and no metric, whatever the pod requests.
C3_UnscheduledPodFails ==
    (Returned("pod") /\ call.pod.NodeName = "") =>
        /\ ret.err # NoErr
        /\ ret.metrics = <<>>

C3_Witness ==
    /\ Returned("pod")
    /\ call.pod.NodeName = ""
    /\ CPURequested(call.pod) > 0
    /\ MemoryRequested(call.pod) > 0
    /\ ret.err # NoErr

\* C4: for a scheduled pod CalculatePodCarbon reports the pod-model energy
\* times PUE; 500 millicores and 1 GiB with PUE 1.5 and grid intensity 500
\* give 0.0024375 kWh and 1.21875 g.
C4_PodEnergyFormula ==
    (Returned("pod") /\ call.pod.NodeName # "") =>
        /\ ret.err = NoErr
        /\ Len(ret.metrics) = 1
        /\ ret.metrics[1].EnergyConsumption =
               FMul(PodModelKWh(call.pod), config.PUE)
        /\ ( /\ CPURequested(call.pod) = 500
             /\ MemoryRequested(call.pod) = 1024
             /\ config.PUE = Dec(15, 10)
             /\ ret.metrics[1].GridIntensity = F(500) ) =>
               /\ ret.metrics[1].EnergyConsumption = Dec(24375, 10000000)
               /\ ret.metrics[1].CO2Emissions = Dec(121875, 100000)

C4_Witness ==
    /\ Succeeded("pod")
    /\ CPURequested(call.pod) = 500
    /\ MemoryRequested(call.pod) = 1024
    /\ config.PUE = Dec(15, 10)
    /\ ret.metrics[1].GridIntensity = F(500)
    /\ ret.metrics[1].CO2Emissions = Dec(121875, 100000)

\* CPU millicores requested by the pods of a list that are scheduled to a
\* node of the given name.
RECURSIVE CPURequestedOn(_, _)
CPURequestedOn(nodeName, pods) ==
    IF pods = <<>> THEN 0
    ELSE (IF Head(pods).NodeName = nodeName THEN CPURequested(Head(pods))
          ELSE 0) + CPURequestedOn(nodeName, Tail(pods))

\* TDP of the specs the node model works with.
TDPOf(lookup) == IF lookup.err THEN 100 ELSE lookup.specs.TDP

\* clamp(requested / capacity, 0, 1) for requested >= 0 and capacity > 0.
Clamp01(requested, capacity) ==
    IF requested >= capacity THEN F(1)
    ELSE IF requested <= 0 THEN Zero
    ELSE Dec(requested, capacity)

\* Node model, watts: TDP * (0.3 + 0.7 * clamp(requested / capacity, 0, 1)).
NodeModelWatts(tdp, requested, capacity) ==
    FMul(F(tdp),
         FAdd(Dec(3, 10), FMul(Dec(7, 10), Clamp01(requested, capacity))))

\* Node model, kWh for one hour before PUE, of a node among a list of pods.
NodeModelKWh(node, pods, lookup) ==
    FDiv(NodeModelWatts(TDPOf(lookup), CPURequestedOn(node.Name, pods),
                        node.Capacity.cpu),
         F(1000))

\* C5: CalculateNodeCarbon reports TDP * (0.3 + 0.7 * clamp(R / C, 0, 1))
\* / 1000 * PUE, R summed over the supplied pods scheduled to the node;
\* TDP 100, capacity 2000, 500 requested, PUE 1.5 and grid intensity 500
\* give 0.07125 kWh and 35.625 g.
C5_NodeEnergyFormula ==
    Returned("node") =>
        /\ ret.err = NoErr
        /\ Len(ret.metrics) = 1
        /\ ret.metrics[1].EnergyConsumption =
               FMul(NodeModelKWh(call.node, call.pods, call.lookup),
                    config.PUE)
        /\ ( /\ TDPOf(call.lookup) = 100
             /\ call.node.Capacity.cpu = 2000
             /\ CPURequestedOn(call.node.Name, call.pods) = 500
             /\ config.PUE = Dec(15, 10)
             /\ ret.metrics[1].GridIntensity = F(500) ) =>
               /\ ret.metrics[1].EnergyConsumption = Dec(7125, 100000)
               /\ ret.metrics[1].CO2Emissions = Dec(35625, 1000)

\* The scenario of C5 with a pod of another node in the list.
C5_Witness ==
    /\ Succeeded("node")
    /\ TDPOf(call.lookup) = 100
    /\ call.node.Capacity.cpu = 2000
    /\ CPURequestedOn(call.node.Name, call.pods) = 500
    /\ \E i \in 1..Len(call.pods) :
          /\ call.pods[i].NodeName # call.node.Name
          /\ CPURequested(call.pods[i]) > 0
    /\ config.PUE = Dec(15, 10)
    /\ ret.metrics[1].GridIntensity = F(500)
    /\ ret.metrics[1].CO2Emissions = Dec(35625, 1000)

\* Energy reported for a node whose power before PUE is the given share
\* num/den of TDP.
EnergyAtShare(num, den) ==
    FMul(FDiv(FMul(F(TDPOf(call.lookup)), Dec(num, den)), F(1000)),
         config.PUE)

\* C6: the node's power before PUE is 0.3 * TDP with no CPU requested,
\* 1.0 * TDP with requested CPU at or above capacity, and never above TDP.
C6_UtilizationClamp ==
    Succeeded("node") =>
        LET requested == CPURequestedOn(call.node.Name, call.pods)
            energy == ret.metrics[1].EnergyConsumption
        IN  /\ requested = 0 => energy = EnergyAtShare(3, 10)
            /\ requested >= call.node.Capacity.cpu =>
                   energy = EnergyAtShare(1, 1)
            /\ FLe(energy, EnergyAtShare(1, 1))

\* A node over-committed: more CPU requested than its capacity.
C6_Witness ==
    /\ Succeeded("node")
    /\ CPURequestedOn(call.node.Name, call.pods) > call.node.Capacity.cpu
    /\ ret.metrics[1].EnergyConsumption = EnergyAtShare(1, 1)

\* The pods that differ from a pod only in the CPU requests of their
\* containers.
CPUVariants(pod) ==
    { [pod EXCEPT !.Containers =
           [i \in 1..Len(pod.Containers) |->
               Container(cpus[i], pod.Containers[i].memory)]] :
        cpus \in [1..Len(pod.Containers) -> {0, 500, 1000}] }

\* C7: of two scheduled pods that differ only in CPU request, the one that
\* requests more CPU gets strictly more energy and strictly more CO2 from
\* the same calculator with the same grid intensity.
C7_CPUMonotonic ==
    Succeeded("pod") =>
        \A other \in CPUVariants(call.pod) :
            CPURequested(other) > CPURequested(call.pod) =>
                LET higher == PodCarbon(config, call.now, other, call.grid)
                IN  /\ higher.err = NoErr
                    /\ FGt(higher.metrics[1].EnergyConsumption,
                           ret.metrics[1].EnergyConsumption)
                    /\ FGt(higher.metrics[1].CO2Emissions,
                           ret.metrics[1].CO2Emissions)

\* A pod with memory requested for which a variant with more CPU exists.
C7_Witness ==
    /\ Succeeded("pod")
    /\ MemoryRequested(call.pod) > 0
    /\ CPURequested(call.pod) = 500
    /\ \E other \in CPUVariants(call.pod) :
          CPURequested(other) > CPURequested(call.pod)

\* What the call in progress returns from a calculator configured with cfg.
ResultWith(cfg) ==
    CASE call.op = "cluster" ->
           ClusterCarbon(cfg, call.now, call.nodes, call.pods, call.lookups,
                         call.grid)
      [] call.op = "namespace" ->
           NamespaceCarbon(cfg, call.now, call.namespace, call.pods,
                           call.grid)
      [] call.op = "node" ->
           NodeCarbon(cfg, call.now, call.node, call.pods, call.lookup,
                      call.grid)
      [] call.op = "pod" -> PodCarbon(cfg, call.now, call.pod, call.grid)

\* C8: in each of the four operations the energy reported with PUE = k is k
\* times the energy reported for the same inputs with PUE = 1.
C8_PUELinear ==
    (pc = "done" /\ ret.err = NoErr) =>
        LET base == ResultWith([config EXCEPT !.PUE = F(1)])
        IN  /\ base.err = NoErr
            /\ ret.metrics[1].EnergyConsumption =
                   FMul(config.PUE, base.metrics[1].EnergyConsumption)

C8_Witness ==
    /\ Succeeded("cluster")
    /\ config.PUE = Dec(15, 10)
    /\ Len(call.nodes) = 2
    /\ FGt(ret.metrics[1].EnergyConsumption,
           ResultWith([config EXCEPT !.PUE = F(1)]).metrics[1]
               .EnergyConsumption)

\* Sum of the node-model energies of the nodes of a list.
RECURSIVE SumNodeModelKWh(_, _, _)
SumNodeModelKWh(nodes, pods, lookups) ==
    IF nodes = <<>> THEN Zero
    ELSE FAdd(NodeModelKWh(Head(nodes), pods, Head(lookups)),
              SumNodeModelKWh(Tail(nodes), pods, Tail(lookups)))

\* C9: CalculateClusterCarbon never fails, also for empty lists, and returns
\* one cluster metric whose energy is PUE times the sum over all supplied
\* nodes of the node-model energy from the pods scheduled to that node.
C9_ClusterSum ==
    Returned("cluster") =>
        /\ ret.err = NoErr
        /\ Len(ret.metrics) = 1
        /\ ret.metrics[1].ResourceType = "cluster"
        /\ ret.metrics[1].EnergyConsumption =
               FMul(SumNodeModelKWh(call.nodes, call.pods, call.lookups),
                    config.PUE)

\* Two nodes, each with a pod of its own in the list.
C9_Witness ==
    /\ Succeeded("cluster")
    /\ Len(call.nodes) = 2
    /\ \A i \in 1..2 : CPURequestedOn(call.nodes[i].Name, call.pods) > 0
    /\ ret.metrics[1].EnergyConsumption =
           FMul(SumNodeModelKWh(call.nodes, call.pods, call.lookups),
                config.PUE)

\* Sum of the pod-model energies of the scheduled pods of a namespace.
RECURSIVE SumPodModelKWh(_, _)
SumPodModelKWh(namespaceName, pods) ==
    IF pods = <<>> THEN Zero
    ELSE FAdd(IF /\ Head(pods).Namespace = namespaceName
                 /\ Head(pods).NodeName # ""
              THEN PodModelKWh(Head(pods))
              ELSE Zero,
              SumPodModelKWh(namespaceName, Tail(pods)))

\* The pods of a list that count for a namespace.
Counted(namespaceName, pods) ==
    { i \in 1..Len(pods) : /\ pods[i].Namespace = namespaceName
                           /\ pods[i].NodeName # "" }

\* C10: CalculateNamespaceCarbon never fails; its energy is PUE times the
\* sum of the pod-model energies of the supplied pods that are in the
\* namespace and scheduled; with every pod skipped it still returns one
\* metric, with zero energy and zero CO2.
C10_NamespaceSum ==
    Returned("namespace") =>
        /\ ret.err = NoErr
        /\ Len(ret.metrics) = 1
        /\ ret.metrics[1].EnergyConsumption =
               FMul(SumPodModelKWh(call.namespace.Name, call.pods),
                    config.PUE)
        /\ Counted(call.namespace.Name, call.pods) = {} =>
               /\ ret.metrics[1].EnergyConsumption = Zero
               /\ ret.metrics[1].CO2Emissions = Zero

\* A namespace call whose list holds a scheduled and an unscheduled pod of
\* the namespace.
C10_Witness ==
    /\ Succeeded("namespace")
    /\ \E i, j \in 1..Len(call.pods) :
          /\ call.pods[i].Namespace = call.namespace.Name
          /\ call.pods[i].NodeName # ""
          /\ call.pods[j].Namespace = call.namespace.Name
          /\ call.pods[j].NodeName = ""
    /\ FGt(ret.metrics[1].EnergyConsumption, Zero)

\* Every pod of the list skipped: an unscheduled pod of the namespace and a
\* pod of another namespace.
C10_WitnessAllSkipped ==
    /\ Succeeded("namespace")
    /\ Len(call.pods) = 2
    /\ Counted(call.namespace.Name, call.pods) = {}
    /\ \E i \in 1..2 : call.pods[i].Namespace = call.namespace.Name
    /\ ret.metrics[1].CO2Emissions = Zero

\* What the call in progress returns when the grid-intensity lookup has the
\* given outcome.
ResultWithGrid(grid) ==
    CASE call.op = "cluster" ->
           ClusterCarbon(config, call.now, call.nodes, call.pods,
                         call.lookups, grid)
      [] call.op = "namespace" ->
           NamespaceCarbon(config, call.now, call.namespace, call.pods, grid)
      [] call.op = "node" ->
           NodeCarbon(config, call.now, call.node, call.pods, call.lookup,
                      grid)
      [] call.op = "pod" -> PodCarbon(config, call.now, call.pod, grid)

\* C11: when the grid-intensity lookup fails, each of the four operations
\* returns what it returns with a successful lookup as far as the error is
\* concerned (only an unscheduled pod fails), and its metric reports the
\* configured DefaultGridIntensity with the CO2 computed from it.
C11_GridFallback ==
    (pc = "done" /\ call.grid.err) =>
        /\ ret.err # NoErr => (call.op = "pod" /\ call.pod.NodeName = "")
        /\ \A grid \in GridOutcomes : ResultWithGrid(grid).err = ret.err
        /\ ret.err = NoErr =>
               /\ Len(ret.metrics) = 1
               /\ ret.metrics[1].GridIntensity = config.DefaultGridIntensity
               /\ ret.metrics[1].CO2Emissions =
                      FMul(ret.metrics[1].EnergyConsumption,
                           config.DefaultGridIntensity)

C11_Witness ==
    /\ Succeeded("node")
    /\ call.grid.err
    /\ ret.metrics[1].GridIntensity = F(500)
    /\ FGt(ret.metrics[1].CO2Emissions, Zero)

\* A fallback value was substituted in the call in progress: the default
\* grid intensity after a failed lookup, or the default instance spec.
FallbackSubstituted ==
    \/ call.grid.err
    \/ call.op = "node" /\ call.lookup.err
    \/ call.op = "cluster" /\ \E i \in 1..Len(call.lookups) :
                                 call.lookups[i].err

\* C12: the Source of a produced metric is "estimated" when a fallback value
\* was substituted during its calculation and "calculated" otherwise.
C12_SourceTagsFallback ==
    pc = "done" =>
        \A i \in 1..Len(ret.metrics) :
            ret.metrics[i].Source =
                IF FallbackSubstituted THEN "estimated" ELSE "calculated"

\* Sum over the nodes of a list of the node-model energy at the TDP of the
\* fallback spec, 100 W.
RECURSIVE SumFallbackKWh(_, _)
SumFallbackKWh(nodes, pods) ==
    IF nodes = <<>> THEN Zero
    ELSE FAdd(FDiv(NodeModelWatts(100,
                                  CPURequestedOn(Head(nodes).Name, pods),
                                  Head(nodes).Capacity.cpu),
                   F(1000)),
              SumFallbackKWh(Tail(nodes), pods))

\* C13: when the instance-spec lookup fails the node model works with the
\* fallback spec (2 vCPU, 4 GB, TDP 100 W), and the node and the cluster
\* calculation return their metric without error.
C13_SpecFallback ==
    /\ (Returned("node") /\ call.lookup.err) =>
           /\ ret.err = NoErr
           /\ Len(ret.metrics) = 1
           /\ ResolveSpecs(InstanceTypeOf(call.node), call.lookup) =
                  InstanceSpecs(InstanceTypeOf(call.node), 2, 4, 100)
           /\ ret.metrics[1].EnergyConsumption =
                  FMul(SumFallbackKWh(<<call.node>>, call.pods), config.PUE)
    /\ (Returned("cluster") /\ \E i \in 1..Len(call.lookups) :
                                  call.lookups[i].err) =>
           /\ ret.err = NoErr
           /\ Len(ret.metrics) = 1
           /\ (\A i \in 1..Len(call.lookups) : call.lookups[i].err) =>
                  ret.metrics[1].EnergyConsumption =
                      FMul(SumFallbackKWh(call.nodes, call.pods), config.PUE)

\* A cluster of two nodes for both of which the lookup failed, one of them
\* without an instance-type label.
C13_Witness ==
    /\ Succeeded("cluster")
    /\ Len(call.nodes) = 2
    /\ \A i \in 1..2 : call.lookups[i].err
    /\ \E i \in 1..2 : InstanceTypeOf(call.nodes[i]) = "unknown"
    /\ Len(call.pods) > 0
    /\ FGt(ret.metrics[1].EnergyConsumption, Zero)

\* Memory quantities (MiB) tried for requests and capacities.
MemoryValues == {0, 1024, 4096}

\* The pod lists that differ from pods only in memory requests: every
\* container of pod i requests ms[i].
MemoryVariants(pods) ==
    { [i \in 1..Len(pods) |->
          [pods[i] EXCEPT !.Containers =
              [j \in 1..Len(pods[i].Containers) |->
                  Container(pods[i].Containers[j].cpu, ms[i])]]] :
        ms \in [1..Len(pods) -> MemoryValues] }

\* C14: CalculateNodeCarbon reports the same energy and CO2 for calls that
\* differ only in the pods' memory requests or the node's memory capacity.
C14_MemoryIgnored ==
    Succeeded("node") =>
        \A capacity \in MemoryValues, pods \in MemoryVariants(call.pods) :
            LET node == [call.node EXCEPT !.Capacity.memory = capacity]
                other == NodeCarbon(config, call.now, node, pods,
                                    call.lookup, call.grid)
            IN  /\ other.err = NoErr
                /\ other.metrics[1].EnergyConsumption =
                       ret.metrics[1].EnergyConsumption
                /\ other.metrics[1].CO2Emissions =
                       ret.metrics[1].CO2Emissions

\* A node whose pods request CPU and memory, below the CPU capacity.
C14_Witness ==
    /\ Succeeded("node")
    /\ \E i \in 1..Len(call.pods) :
           /\ call.pods[i].NodeName = call.node.Name
           /\ MemoryRequested(call.pods[i]) > 0
           /\ CPURequested(call.pods[i]) > 0
    /\ CPURequestedOn(call.node.Name, call.pods) < call.node.Capacity.cpu

(***************************************************************************)
(* Formatting of metrics as Grafana data frames (ConvertToDataFrames).     *)
(* A frame is its name, its fields in order and the type of its meta; a    *)
(* field is its name, the unit of its config ("" without a config) and     *)
(* its values in row order.                                                *)
(***************************************************************************)
MaxMetrics == 2

Field(name, unit, values) == [Name |-> name, Unit |-> unit, Values |-> values]

Frame(name, fields, type) ==
    [Name |-> name, Fields |-> fields, Meta |-> [Type |-> type]]

\* A Query with the four string fields given and the zero value in GroupBy
\* (nil slice), Filters (nil map, a set of <<key, value>> pairs here) and
\* TimeRange.
Query(refID, queryType, resourceType, aggregation) ==
    [RefID |-> refID, QueryType |-> queryType, ResourceType |-> resourceType,
     Aggregation |-> aggregation, GroupBy |-> <<>>, Filters |-> {},
     TimeRange |-> [From |-> "", To |-> ""]]

\* The column of one struct field of the metrics, in slice order:
\* make([]T, len(metrics)) filled by Set(i, metric.<field>).
Column(metrics, field) == [i \in 1..Len(metrics) |-> metrics[i][field]]

\* Variant: the rows are filled from the end of the slice.
convertToTimeSeriesFramesReversed(metrics, query) ==
    LET n == Len(metrics)
        reversed == [i \in 1..n |-> metrics[n + 1 - i]]
    IN  [frames |-> <<Frame(query.RefID,
                 <<Field("time", "", Column(reversed, "Timestamp")),
                   Field("co2_emissions", "gCO2",
                         Column(reversed, "CO2Emissions")),
                   Field("energy_consumption", "kWh",
                         Column(reversed, "EnergyConsumption")),
                   Field("grid_intensity", "gCO2/kWh",
                         Column(reversed, "GridIntensity"))>>,
                 "FrameTypeTimeSeriesMulti")>>,
         err |-> NoErr]

convertToTimeSeriesFrames(metrics, query) ==
    [frames |-> <<Frame(query.RefID,
             <<Field("time", "", Column(metrics, "Timestamp")),
               Field("co2_emissions", "gCO2",
                     Column(metrics, "CO2Emissions")),
               Field("energy_consumption", "kWh",
                     Column(metrics, "EnergyConsumption")),
               Field("grid_intensity", "gCO2/kWh",
                     Column(metrics, "GridIntensity"))>>,
             "FrameTypeTimeSeriesMulti")>>,
     err |-> NoErr]

convertToTableFrames(metrics, query) ==
    [frames |-> <<Frame(query.RefID,
             <<Field("resource", "", Column(metrics, "ResourceName")),
               Field("namespace", "", Column(metrics, "Namespace")),
               Field("co2_emissions", "gCO2",
                     Column(metrics, "CO2Emissions")),
               Field("energy_consumption", "kWh",
                     Column(metrics, "EnergyConsumption"))>>,
             "FrameTypeTable")>>,
     err |-> NoErr]

\* Variant: max and min start from the zero value of the accumulator.
AggregateStepFromZero(aggregation, i, value, co2) ==
    CASE aggregation = "max" -> IF FGt(co2, value) THEN co2 ELSE value
      [] aggregation = "min" -> IF FLt(co2, value) THEN co2 ELSE value
      [] OTHER -> FAdd(value, co2)

\* Variant: an aggregation that is not known leaves the accumulator alone.
AggregateStepNoDefault(aggregation, i, value, co2) ==
    CASE aggregation \in {"sum", "avg"} -> FAdd(value, co2)
      [] aggregation = "max" ->
             IF i = 1 \/ FGt(co2, value) THEN co2 ELSE value
      [] aggregation = "min" ->
             IF i = 1 \/ FLt(co2, value) THEN co2 ELSE value
      [] OTHER -> value

\* The body of the loop of each case of the switch on query.Aggregation,
\* for the i-th metric (counted from 1).
AggregateStep(aggregation, i, value, co2) ==
    CASE aggregation \in {"sum", "avg"} -> FAdd(value, co2)
      [] aggregation = "max" ->
             IF i = 1 \/ FGt(co2, value) THEN co2 ELSE value
      [] aggregation = "min" ->
             IF i = 1 \/ FLt(co2, value) THEN co2 ELSE value
      [] OTHER -> FAdd(value, co2)

RECURSIVE AggregateLoop(_, _, _, _)
AggregateLoop(metrics, aggregation, i, value) ==
    IF i > Len(metrics) THEN value
    ELSE AggregateLoop(metrics, aggregation, i + 1,
             AggregateStep(aggregation, i, value, metrics[i].CO2Emissions))

\* var value float64; switch query.Aggregation { ... }
Aggregate(metrics, aggregation) ==
    LET value == AggregateLoop(metrics, aggregation, 1, Zero)
    IN  IF aggregation = "avg" /\ Len(metrics) > 0
        THEN FDiv(value, F(Len(metrics)))
        ELSE value

convertToSingleValueFrames(metrics, query) ==
    [frames |-> <<Frame(query.RefID,
             <<Field("value", "gCO2",
                     <<Aggregate(metrics, query.Aggregation)>>)>>,
             "FrameTypeSingleValue")>>,
     err |-> NoErr]

\* Variant: an empty metric list is formatted like any other.
ConvertToDataFramesNoEmptyCheck(metrics, query) ==
    CASE query.QueryType = "timeseries" ->
             convertToTimeSeriesFrames(metrics, query)
      [] query.QueryType = "table" -> convertToTableFrames(metrics, query)
      [] query.QueryType = "single-value" ->
             convertToSingleValueFrames(metrics, query)
      [] OTHER -> convertToTimeSeriesFrames(metrics, query)

\* Variant: a query type that is not known is formatted as a table.
ConvertToDataFramesDefaultTable(metrics, query) ==
    IF Len(metrics) = 0 THEN [frames |-> <<>>, err |-> NoErr]
    ELSE CASE query.QueryType = "timeseries" ->
                  convertToTimeSeriesFrames(metrics, query)
           [] query.QueryType = "table" ->
                  convertToTableFrames(metrics, query)
           [] query.QueryType = "single-value" ->
                  convertToSingleValueFrames(metrics, query)
           [] OTHER -> convertToTableFrames(metrics, query)

ConvertToDataFrames(metrics, query) ==
    IF Len(metrics) = 0 THEN [frames |-> <<>>, err |-> NoErr]
    ELSE CASE query.QueryType = "timeseries" ->
                  convertToTimeSeriesFrames(metrics, query)
           [] query.QueryType = "table" ->
                  convertToTableFrames(metrics, query)
           [] query.QueryType = "single-value" ->
                  convertToSingleValueFrames(metrics, query)
           [] OTHER -> convertToTimeSeriesFrames(metrics, query)

\* Metrics to format: those of TestConvertToDataFrames (100.5 and 105.2
\* gCO2), and metrics with a negative mass whose timestamps and names are
\* not in the order of their mass.
FormatMetrics ==
    { Metrics(3, "pod", "test-pod-1", "production", "",
              Dec(201, 2), Dec(2, 10), F(500), "calculated", NoLabels),
      Metrics(4, "pod", "test-pod-1", "production", "",
              Dec(1052, 10), Dec(21, 100), F(502), "calculated", NoLabels),
      Metrics(2, "node", "node-b", "", "node-b",
              F(-3), Dec(1, 10), F(400), "calculated", NoLabels),
      Metrics(1, "namespace", "kube-system", "kube-system", "",
              F(-7), Dec(3, 10), F(450), "calculated", NoLabels) }

MetricLists == SeqsUpTo(FormatMetrics, MaxMetrics)

QueryTypes == {"timeseries", "table", "single-value", "", "heatmap"}

Aggregations == {"sum", "avg", "max", "min", "", "median"}

ResourceTypes == {"cluster", "namespace", "node", "pod", "", "deployment"}

Queries ==
    { Query("A", queryType, resourceType, aggregation) :
        queryType \in QueryTypes, resourceType \in {"pod"},
        aggregation \in Aggregations }

\* A caller formats a list of metrics for a query.
FormatCall(metrics, query) ==
    /\ pc = "idle"
    /\ call' = [op |-> "convert", metrics |-> metrics, query |-> query]
    /\ ret' = ConvertToDataFrames(metrics, query)
    /\ pc' = "done"
    /\ UNCHANGED config

NextFormat ==
    \/ /\ pc = "idle"
       /\ \E metrics \in MetricLists, query \in Queries :
             FormatCall(metrics, query)
    \/ Return

SpecFormat == Init /\ [][NextFormat]_vars

Formatted == pc = "done" /\ call.op = "convert"

\* C15: an empty metric list gives an empty frame list and no error for
\* every query type, and no returned frame has a field without rows.
C15_EmptyInput ==
    Formatted =>
        /\ call.metrics = <<>> => (ret.frames = <<>> /\ ret.err = NoErr)
        /\ \A f \in 1..Len(ret.frames) :
               \A c \in 1..Len(ret.frames[f].Fields) :
                   Len(ret.frames[f].Fields[c].Values) > 0

C15_Witness ==
    /\ Formatted
    /\ call.metrics = <<>>
    /\ call.query.QueryType = "single-value"
    /\ ret.frames = <<>>

\* The struct fields of Metrics that the columns of each shape carry, in
\* column order.
ShapeColumns(queryType) ==
    IF queryType = "table"
    THEN <<"ResourceName", "Namespace", "CO2Emissions", "EnergyConsumption">>
    ELSE <<"Timestamp", "CO2Emissions", "EnergyConsumption", "GridIntensity">>

\* C16: timeseries and table formatting of n >= 1 metrics gives one frame
\* of four fields of n rows each; row i holds the values of metric i
\* (timeseries: time, co2, energy, grid intensity; table: resource name,
\* namespace, co2, energy), in input order.
C16_OneRowPerMetric ==
    (/\ Formatted
     /\ call.query.QueryType \in {"timeseries", "table"}
     /\ call.metrics # <<>>) =>
        /\ ret.err = NoErr
        /\ Len(ret.frames) = 1
        /\ Len(ret.frames[1].Fields) = 4
        /\ \A c \in 1..4 :
               LET values == ret.frames[1].Fields[c].Values
               IN  /\ Len(values) = Len(call.metrics)
                   /\ \A i \in 1..Len(call.metrics) :
                          values[i] =
                              call.metrics[i][ShapeColumns(
                                  call.query.QueryType)[c]]

\* Two metrics given against the order of their timestamps.
C16_Witness ==
    /\ Formatted
    /\ call.query.QueryType = "timeseries"
    /\ Len(call.metrics) = 2
    /\ call.metrics[1].Timestamp > call.metrics[2].Timestamp
    /\ ret.frames[1].Fields[1].Values[1] > ret.frames[1].Fields[1].Values[2]

RECURSIVE SumCO2(_)
SumCO2(metrics) ==
    IF metrics = <<>> THEN Zero
    ELSE FAdd(Head(metrics).CO2Emissions, SumCO2(Tail(metrics)))

\* value is the reduction of the CO2Emissions of metrics by aggregation.
IsReduction(value, metrics, aggregation) ==
    LET rows == 1..Len(metrics)
    IN  CASE aggregation = "sum" -> value = SumCO2(metrics)
          [] aggregation = "avg" ->
                 value = FDiv(SumCO2(metrics), F(Len(metrics)))
          [] aggregation = "max" ->
                 /\ \E i \in rows : value = metrics[i].CO2Emissions
                 /\ \A i \in rows : FLe(metrics[i].CO2Emissions, value)
          [] aggregation = "min" ->
                 /\ \E i \in rows : value = metrics[i].CO2Emissions
                 /\ \A i \in rows : FLe(value, metrics[i].CO2Emissions)

\* C17: single-value formatting of a non-empty metric list gives one frame
\* with the one field "value" of one row: the sum, the mean, the largest
\* or the smallest CO2Emissions of the input for sum, avg, max and min.
C17_SingleValueReduction ==
    (/\ Formatted
     /\ call.query.QueryType = "single-value"
     /\ call.metrics # <<>>) =>
        /\ ret.err = NoErr
        /\ Len(ret.frames) = 1
        /\ Len(ret.frames[1].Fields) = 1
        /\ ret.frames[1].Fields[1].Name = "value"
        /\ Len(ret.frames[1].Fields[1].Values) = 1
        /\ call.query.Aggregation \in {"sum", "avg", "max", "min"} =>
               IsReduction(ret.frames[1].Fields[1].Values[1], call.metrics,
                           call.query.Aggregation)

\* The largest of two different negative values.
C17_Witness ==
    /\ Formatted
    /\ call.query.QueryType = "single-value"
    /\ call.query.Aggregation = "max"
    /\ Len(call.metrics) = 2
    /\ \A i \in 1..2 : FLt(call.metrics[i].CO2Emissions, Zero)
    /\ call.metrics[1].CO2Emissions # call.metrics[2].CO2Emissions
    /\ ret.frames[1].Fields[1].Values[1] = F(-3)

\* The sum of the test: 100.5 + 105.2 = 205.7.
C17_WitnessSum ==
    /\ Formatted
    /\ call.query.QueryType = "single-value"
    /\ call.query.Aggregation = "sum"
    /\ ret.frames # <<>>
    /\ ret.frames[1].Fields[1].Values[1] = Dec(2057, 10)

\* C18: an aggregation other than sum, avg, max and min, the empty string
\* among them, formats the single value as sum does, without error.
C18_UnknownAggregationIsSum ==
    (/\ Formatted
     /\ call.query.QueryType = "single-value"
     /\ call.query.Aggregation \notin {"sum", "avg", "max", "min"}) =>
        /\ ret.err = NoErr
        /\ ret = ConvertToDataFrames(call.metrics,
                     [call.query EXCEPT !.Aggregation = "sum"])
        /\ call.metrics # <<>> =>
               ret.frames[1].Fields[1].Values[1] = SumCO2(call.metrics)

C18_Witness ==
    /\ Formatted
    /\ call.query.QueryType = "single-value"
    /\ call.query.Aggregation = ""
    /\ Len(call.metrics) = 2
    /\ ret.frames[1].Fields[1].Values[1] = Dec(2057, 10)

(***************************************************************************)
(* Dispatch of a query by the Go backend (CarbonFootprintDatasource.query  *)
(* and its four collectors, docs/ARCHITECTURE.md).  The Kubernetes client  *)
(* is outside the repository: each of its calls either fails or returns a  *)
(* listing.  env holds what the calls made for one query return: the       *)
(* outcome of GetNodes, of GetNamespaces, of the i-th GetPods or           *)
(* GetPodsOnNode call, of the i-th instance-spec lookup and of the i-th    *)
(* GetGridIntensity call.                                                  *)
(***************************************************************************)
Failed(err) == [err |-> err, list |-> <<>>]

Listed(list) == [err |-> NoErr, list |-> list]

(***************************************************************************)
(* A JSON value is a string, an array of strings, an object with string    *)
(* members (a set of <<key, value>> pairs), a number or null.  A payload   *)
(* is text that is not JSON (malformed) or an object: a function from the  *)
(* keys it has to their values.                                            *)
(***************************************************************************)
JSONValue(type, string, array, object) ==
    [type |-> type, string |-> string, array |-> array, object |-> object]

JString(string) == JSONValue("string", string, <<>>, {})

JArray(array) == JSONValue("array", "", array, {})

JObject(object) == JSONValue("object", "", <<>>, object)

JNumber == JSONValue("number", "", <<>>, {})

JNull == JSONValue("null", "", <<>>, {})

Malformed == [malformed |-> TRUE, members |-> [key \in {} |-> JNull]]

Document(members) == [malformed |-> FALSE, members |-> members]

\* The payload the query editor sends for a query: every field under the
\* key of its json tag.
Encode(query) ==
    Document([refId |-> JString(query.RefID),
              queryType |-> JString(query.QueryType),
              resourceType |-> JString(query.ResourceType),
              aggregation |-> JString(query.Aggregation),
              groupBy |-> JArray(query.GroupBy),
              filters |-> JObject(query.Filters),
              timeRange |-> JObject({<<"from", query.TimeRange.From>>,
                                     <<"to", query.TimeRange.To>>})])

\* json.Unmarshal of one member into a struct field of the type given: a
\* key that is absent or null leaves the zero value, a value of another
\* type is an UnmarshalTypeError.
Mismatch(members, key, type) ==
    key \in DOMAIN members /\ members[key].type \notin {type, "null"}

Present(members, key) ==
    key \in DOMAIN members /\ members[key].type # "null"

StringMember(members, key) ==
    IF Present(members, key) THEN members[key].string ELSE ""

ObjectMember(object, key) ==
    IF \E pair \in object : pair[1] = key
    THEN (CHOOSE pair \in object : pair[1] = key)[2]
    ELSE ""

Unmarshal(members) ==
    [RefID |-> StringMember(members, "refId"),
     QueryType |-> StringMember(members, "queryType"),
     ResourceType |-> StringMember(members, "resourceType"),
     Aggregation |-> StringMember(members, "aggregation"),
     GroupBy |-> IF Present(members, "groupBy")
                 THEN members["groupBy"].array ELSE <<>>,
     Filters |-> IF Present(members, "filters")
                 THEN members["filters"].object ELSE {},
     TimeRange |-> IF Present(members, "timeRange")
                   THEN [From |-> ObjectMember(members["timeRange"].object,
                                               "from"),
                         To |-> ObjectMember(members["timeRange"].object,
                                             "to")]
                   ELSE [From |-> "", To |-> ""]]

UnmarshalFails(queryJSON) ==
    \/ queryJSON.malformed
    \/ \E key \in {"refId", "queryType", "resourceType", "aggregation"} :
           Mismatch(queryJSON.members, key, "string")
    \/ Mismatch(queryJSON.members, "groupBy", "array")
    \/ Mismatch(queryJSON.members, "filters", "object")
    \/ Mismatch(queryJSON.members, "timeRange", "object")

\* Variant: a query type outside the allowed set is refused.
ParseQueryValidating(queryJSON) ==
    IF UnmarshalFails(queryJSON)
       \/ Unmarshal(queryJSON.members).QueryType
              \notin {"timeseries", "table", "single-value"}
    THEN [query |-> <<>>, err |-> <<"failed to parse query">>]
    ELSE [query |-> <<Unmarshal(queryJSON.members)>>, err |-> NoErr]

\* ParseQuery: json.Unmarshal of the payload into a Query.  The *Query
\* returned is a sequence of no element (nil) or one.
ParseQuery(queryJSON) ==
    IF UnmarshalFails(queryJSON)
    THEN [query |-> <<>>, err |-> <<"failed to parse query">>]
    ELSE [query |-> <<Unmarshal(queryJSON.members)>>, err |-> NoErr]

\* In the collectors the metrics are a value computed once and then
\* formatted: the one element of a set, taken by CHOOSE.
collectClusterMetrics(cfg, now, env, query) ==
    IF env.nodes.err # NoErr THEN [frames |-> <<>>, err |-> env.nodes.err]
    ELSE IF env.pods[1].err # NoErr
    THEN [frames |-> <<>>, err |-> env.pods[1].err]
    ELSE CHOOSE frames \in
             { IF r.err # NoErr THEN [frames |-> <<>>, err |-> r.err]
               ELSE ConvertToDataFrames(r.metrics, query) :
                 r \in {ClusterCarbon(cfg, now, env.nodes.list,
                                      env.pods[1].list, env.lookups,
                                      env.grids[1])} } : TRUE

\* if err != nil { continue }; allMetrics = append(allMetrics, metrics...)
AppendMetrics(allMetrics, r) ==
    IF r.err # NoErr THEN allMetrics ELSE allMetrics \o r.metrics

\* for _, ns := range namespaces: a namespace whose pods cannot be listed
\* or whose calculation fails is passed over.
RECURSIVE NamespaceMetricsLoop(_, _, _, _, _)
NamespaceMetricsLoop(cfg, now, env, i, allMetrics) ==
    IF i > Len(env.namespaces.list) THEN allMetrics
    ELSE IF env.pods[i].err # NoErr
    THEN NamespaceMetricsLoop(cfg, now, env, i + 1, allMetrics)
    ELSE NamespaceMetricsLoop(cfg, now, env, i + 1,
             AppendMetrics(allMetrics,
                 NamespaceCarbon(cfg, now, env.namespaces.list[i],
                                 env.pods[i].list, env.grids[i])))

collectNamespaceMetrics(cfg, now, env, query) ==
    IF env.namespaces.err # NoErr
    THEN [frames |-> <<>>, err |-> env.namespaces.err]
    ELSE CHOOSE frames \in
             { ConvertToDataFrames(allMetrics, query) :
                 allMetrics \in
                     {NamespaceMetricsLoop(cfg, now, env, 1, <<>>)} } : TRUE

RECURSIVE NodeMetricsLoop(_, _, _, _, _)
NodeMetricsLoop(cfg, now, env, i, allMetrics) ==
    IF i > Len(env.nodes.list) THEN allMetrics
    ELSE IF env.pods[i].err # NoErr
    THEN NodeMetricsLoop(cfg, now, env, i + 1, allMetrics)
    ELSE NodeMetricsLoop(cfg, now, env, i + 1,
             AppendMetrics(allMetrics,
                 NodeCarbon(cfg, now, env.nodes.list[i], env.pods[i].list,
                            env.lookups[i], env.grids[i])))

collectNodeMetrics(cfg, now, env, query) ==
    IF env.nodes.err # NoErr THEN [frames |-> <<>>, err |-> env.nodes.err]
    ELSE CHOOSE frames \in
             { ConvertToDataFrames(allMetrics, query) :
                 allMetrics \in {NodeMetricsLoop(cfg, now, env, 1, <<>>)} } :
             TRUE

\* Variant: the loop ends at the first pod whose calculation fails.
RECURSIVE PodMetricsLoopBreaks(_, _, _, _, _)
PodMetricsLoopBreaks(cfg, now, env, i, allMetrics) ==
    IF i > Len(env.pods[1].list) THEN allMetrics
    ELSE IF PodCarbon(cfg, now, env.pods[1].list[i], env.grids[i]).err # NoErr
    THEN allMetrics
    ELSE PodMetricsLoopBreaks(cfg, now, env, i + 1,
             AppendMetrics(allMetrics,
                 PodCarbon(cfg, now, env.pods[1].list[i], env.grids[i])))

RECURSIVE PodMetricsLoop(_, _, _, _, _)
PodMetricsLoop(cfg, now, env, i, allMetrics) ==
    IF i > Len(env.pods[1].list) THEN allMetrics
    ELSE PodMetricsLoop(cfg, now, env, i + 1,
             AppendMetrics(allMetrics,
                 PodCarbon(cfg, now, env.pods[1].list[i], env.grids[i])))

collectPodMetrics(cfg, now, env, query) ==
    IF env.pods[1].err # NoErr
    THEN [frames |-> <<>>, err |-> env.pods[1].err]
    ELSE CHOOSE frames \in
             { ConvertToDataFrames(allMetrics, query) :
                 allMetrics \in {PodMetricsLoop(cfg, now, env, 1, <<>>)} } :
             TRUE

\* The response of a collector: its frames, or its error and no frames.
Collected(collector, r) ==
    [frames |-> IF r.err # NoErr THEN <<>> ELSE r.frames, err |-> r.err,
     collector |-> collector]

\* Variant: a resource type that is not known is collected as pods.
queryDefaultPod(cfg, now, dataQuery, env) ==
    LET parsed == ParseQuery(dataQuery.JSON)
        carbonQuery == parsed.query[1]
    IN  IF parsed.err # NoErr
        THEN [frames |-> <<>>, err |-> parsed.err, collector |-> "none"]
        ELSE CASE carbonQuery.ResourceType = "cluster" ->
                      Collected("collectClusterMetrics",
                          collectClusterMetrics(cfg, now, env, carbonQuery))
               [] carbonQuery.ResourceType = "namespace" ->
                      Collected("collectNamespaceMetrics",
                          collectNamespaceMetrics(cfg, now, env,
                                                  carbonQuery))
               [] carbonQuery.ResourceType = "node" ->
                      Collected("collectNodeMetrics",
                          collectNodeMetrics(cfg, now, env, carbonQuery))
               [] OTHER ->
                      Collected("collectPodMetrics",
                          collectPodMetrics(cfg, now, env, carbonQuery))

\* query: the response to one backend.DataQuery and the collector that
\* was called for it.
query(cfg, now, dataQuery, env) ==
    LET parsed == ParseQuery(dataQuery.JSON)
        carbonQuery == parsed.query[1]
    IN  IF parsed.err # NoErr
        THEN [frames |-> <<>>, err |-> parsed.err, collector |-> "none"]
        ELSE CASE carbonQuery.ResourceType = "cluster" ->
                      Collected("collectClusterMetrics",
                          collectClusterMetrics(cfg, now, env, carbonQuery))
               [] carbonQuery.ResourceType = "namespace" ->
                      Collected("collectNamespaceMetrics",
                          collectNamespaceMetrics(cfg, now, env,
                                                  carbonQuery))
               [] carbonQuery.ResourceType = "node" ->
                      Collected("collectNodeMetrics",
                          collectNodeMetrics(cfg, now, env, carbonQuery))
               [] carbonQuery.ResourceType = "pod" ->
                      Collected("collectPodMetrics",
                          collectPodMetrics(cfg, now, env, carbonQuery))
               [] OTHER ->
                      [frames |-> <<>>,
                       err |-> <<"unknown resource type: ",
                                 carbonQuery.ResourceType>>,
                       collector |-> "none"]

(***************************************************************************)
(* The TypeScript data source: CarbonDataSource.query over the targets of  *)
(* a request and CarbonMetricsCollector.collectMetrics with its mock       *)
(* collectors.  A mock frame is its refId, the names of its fields and its *)
(* number of rows; the values of the rows come from Math.random and are    *)
(* left out.  Time is counted in steps of the mock's 5-minute interval.    *)
(***************************************************************************)
MaxTargets == 2

\* A request without a range, or with dates that are not valid.
NoRange == [valid |-> FALSE, from |-> 0, to |-> 0]

Range(from, to) == [valid |-> TRUE, from |-> from, to |-> to]

\* The number of points of generateMockCarbonData: one per interval from
\* startTime to endTime inclusive, none when a date is not valid (NaN).
Points(timeRange) ==
    IF ~timeRange.valid THEN 0
    ELSE IF timeRange.to < timeRange.from THEN 0
    ELSE timeRange.to - timeRange.from + 1

MockFrame(refId, fields, rows) ==
    [refId |-> refId, fields |-> fields, length |-> rows]

\* Variant: a resource type that is not known is collected as a cluster.
collectMetricsDefaultCluster(q) ==
    CASE q.resourceType = "namespace" ->
             [frames |-> <<MockFrame(q.refId,
                  <<"time", "namespace", "co2_emissions", "pod_count">>,
                  4 * Points(q.timeRange))>>, err |-> NoErr]
      [] q.resourceType = "node" ->
             [frames |-> <<MockFrame(q.refId,
                  <<"time", "node", "instance_type", "co2_emissions",
                    "cpu_utilization", "memory_utilization">>,
                  3 * Points(q.timeRange))>>, err |-> NoErr]
      [] q.resourceType = "pod" ->
             [frames |-> <<MockFrame(q.refId,
                  <<"time", "pod", "namespace", "node", "co2_emissions",
                    "cpu_usage", "memory_usage">>,
                  4 * Points(q.timeRange))>>, err |-> NoErr]
      [] OTHER ->
             [frames |-> <<MockFrame(q.refId,
                  <<"time", "co2_emissions", "energy_consumption",
                    "grid_intensity">>,
                  Points(q.timeRange))>>, err |-> NoErr]

\* collectMetrics: the frames of the collector of the resource type, or
\* the Error thrown.
collectMetrics(q) ==
    CASE q.resourceType = "cluster" ->
             [frames |-> <<MockFrame(q.refId,
                  <<"time", "co2_emissions", "energy_consumption",
                    "grid_intensity">>,
                  Points(q.timeRange))>>, err |-> NoErr]
      [] q.resourceType = "namespace" ->
             [frames |-> <<MockFrame(q.refId,
                  <<"time", "namespace", "co2_emissions", "pod_count">>,
                  4 * Points(q.timeRange))>>, err |-> NoErr]
      [] q.resourceType = "node" ->
             [frames |-> <<MockFrame(q.refId,
                  <<"time", "node", "instance_type", "co2_emissions",
                    "cpu_utilization", "memory_utilization">>,
                  3 * Points(q.timeRange))>>, err |-> NoErr]
      [] q.resourceType = "pod" ->
             [frames |-> <<MockFrame(q.refId,
                  <<"time", "pod", "namespace", "node", "co2_emissions",
                    "cpu_usage", "memory_usage">>,
                  4 * Points(q.timeRange))>>, err |-> NoErr]
      [] OTHER ->
             [frames |-> <<>>,
              err |-> <<"Unknown resource type: ", q.resourceType>>]

\* The async function mapped over the targets: a hidden target gives no
\* frames and is not collected.
TargetResult(target, range) ==
    IF target.hide THEN [frames |-> <<>>, err |-> NoErr]
    ELSE collectMetrics([refId |-> target.refId,
                         queryType |-> target.queryType,
                         resourceType |-> target.resourceType,
                         timeRange |-> range])

\* Promise.all over the targets and data.flatMap(d => d.frames): the
\* frames in target order, or the rejection of the first target that
\* failed.
RECURSIVE CarbonDataSourceQuery(_, _, _)
CarbonDataSourceQuery(request, i, data) ==
    IF i > Len(request.targets) THEN [frames |-> data, err |-> NoErr]
    ELSE LET d == TargetResult(request.targets[i], request.range)
         IN  IF d.err # NoErr THEN [frames |-> <<>>, err |-> d.err]
             ELSE CarbonDataSourceQuery(request, i + 1, data \o d.frames)

(***************************************************************************)
(* Queries dispatched and what the cluster answers                         *)
(***************************************************************************)
NodeNamed(name) == CHOOSE node \in Nodes : node.Name = name

PodNamed(name) == CHOOSE pod \in ClusterPods : pod.Name = name

NamespaceNamed(name) == CHOOSE ns \in Namespaces : ns.Name = name

Prefixes(list, n) ==
    { SubSeq(list, 1, k) : k \in 0..(IF n < Len(list) THEN n ELSE Len(list)) }

\* Listings of the Kubernetes client, and its failure.
NodesOutcomes ==
    {Failed(<<"GetNodes failed">>)} \cup
    { Listed(l) :
        l \in Prefixes(<<NodeNamed("test-node-1"), NodeNamed("test-node-3"),
                         NodeNamed("test-node-2")>>, MaxNodes) }

NamespacesOutcomes ==
    {Failed(<<"GetNamespaces failed">>)} \cup
    { Listed(l) :
        l \in Prefixes(<<NamespaceNamed("production"),
                         NamespaceNamed("development")>>, 2) }

PodsOutcomes ==
    {Failed(<<"GetPods failed">>), Listed(<<PodNamed("pending-pod")>>)} \cup
    { Listed(l) :
        l \in Prefixes(<<PodNamed("test-pod-1"), PodNamed("pending-pod"),
                         PodNamed("test-pod-4")>>, MaxPods) }

Env(nodes, namespaces, pods, lookups, grids) ==
    [nodes |-> nodes, namespaces |-> namespaces, pods |-> pods,
     lookups |-> lookups, grids |-> grids]

ClusterEnvs ==
    UNION { { Env(n, Listed(<<>>), <<p>>, l, <<g>>) :
                p \in PodsOutcomes, l \in [1..Len(n.list) -> SpecOutcomes],
                g \in GridOutcomes } : n \in NodesOutcomes }

NamespaceEnvs ==
    UNION { { Env(Listed(<<>>), ns, p, <<>>, g) :
                p \in [1..Len(ns.list) -> PodsOutcomes],
                g \in [1..Len(ns.list) -> GridOutcomes] } :
            ns \in NamespacesOutcomes }

NodeEnvs ==
    UNION { { Env(n, Listed(<<>>), p, l, g) :
                p \in [1..Len(n.list) -> PodsOutcomes],
                l \in [1..Len(n.list) -> SpecOutcomes],
                g \in [1..Len(n.list) -> GridOutcomes] } :
            n \in NodesOutcomes }

PodEnvs ==
    UNION { { Env(Listed(<<>>), Listed(<<>>), <<p>>, <<>>, g) :
                g \in [1..Len(p.list) -> GridOutcomes] } :
            p \in PodsOutcomes }

\* What the cluster can answer to the calls a query of a resource type
\* leads to.
EnvsOf(resourceType) ==
    CASE resourceType = "cluster" -> ClusterEnvs
      [] resourceType = "namespace" -> NamespaceEnvs
      [] resourceType = "node" -> NodeEnvs
      [] OTHER -> PodEnvs

\* backend.DataQuery: a payload that parses to a Query, or does not parse.
DataQuery(refID, queryJSON) == [RefID |-> refID, JSON |-> queryJSON]

DataQueries ==
    {DataQuery("A", Malformed)} \cup
    { DataQuery("A", Encode(Query("A", queryType, resourceType, "sum"))) :
        queryType \in {"timeseries", "single-value"},
        resourceType \in ResourceTypes }

Target(refId, hide, queryType, resourceType) ==
    [refId |-> refId, hide |-> hide, queryType |-> queryType,
     resourceType |-> resourceType]

Targets ==
    { Target(refId, hide, "timeseries", resourceType) :
        refId \in {"A", "B"}, hide \in BOOLEAN,
        resourceType \in ResourceTypes }

Ranges == {NoRange, Range(0, 0), Range(0, 1), Range(1, 0)}

Requests ==
    { [targets |-> targets, range |-> range] :
        targets \in SeqsUpTo(Targets, MaxTargets), range \in Ranges }

\* The Go backend answers one query of a request.
QueryCall(now, dataQuery, env) ==
    /\ pc = "idle"
    /\ \E response \in {query(config, now, dataQuery, env)} :
          /\ call' = [op |-> "query", now |-> now, query |-> dataQuery,
                      env |-> env, collector |-> response.collector]
          /\ ret' = [frames |-> response.frames, err |-> response.err]
    /\ pc' = "done"
    /\ UNCHANGED config

\* The TypeScript data source answers a request.
DataSourceQueryCall(request) ==
    /\ pc = "idle"
    /\ call' = [op |-> "datasource", request |-> request]
    /\ ret' = CarbonDataSourceQuery(request, 1, <<>>)
    /\ pc' = "done"
    /\ UNCHANGED config

NextDispatch ==
    \/ /\ pc = "idle"
       /\ \E now \in Times, dataQuery \in DataQueries :
             \E env \in EnvsOf(StringMember(dataQuery.JSON.members,
                                             "resourceType")) :
                QueryCall(now, dataQuery, env)
    \/ /\ pc = "idle"
       /\ \E request \in Requests : DataSourceQueryCall(request)
    \/ Return

SpecDispatch == Init /\ [][NextDispatch]_vars

KnownResourceTypes == {"cluster", "namespace", "node", "pod"}

\* C19: a query whose resource type is not cluster, namespace, node or pod
\* ends in an error without frames.  The Go query sets the error of the
\* response and calls no collector; the TypeScript collectMetrics throws
\* and CarbonDataSource.query rejects.
C19_UnknownResourceType ==
    /\ (/\ Returned("query")
        /\ ~UnmarshalFails(call.query.JSON)
        /\ StringMember(call.query.JSON.members, "resourceType")
               \notin KnownResourceTypes) =>
           /\ ret.err = <<"unknown resource type: ",
                          StringMember(call.query.JSON.members,
                                       "resourceType")>>
           /\ ret.frames = <<>>
           /\ call.collector = "none"
    /\ Returned("datasource") =>
           \A i \in 1..Len(call.request.targets) :
               LET target == call.request.targets[i]
               IN  (/\ ~target.hide
                    /\ target.resourceType \notin KnownResourceTypes) =>
                       /\ TargetResult(target, call.request.range).err =
                              <<"Unknown resource type: ",
                                target.resourceType>>
                       /\ ret.err # NoErr
                       /\ ret.err[1] = "Unknown resource type: "
                       /\ ret.frames = <<>>

\* A request whose first target can be collected and whose second target
\* has a resource type that is not known.
C19_Witness ==
    /\ Returned("datasource")
    /\ Len(call.request.targets) = 2
    /\ call.request.targets[1].resourceType = "cluster"
    /\ ~call.request.targets[1].hide
    /\ call.request.targets[2].resourceType = "deployment"
    /\ ~call.request.targets[2].hide
    /\ call.request.range # NoRange
    /\ ret.err = <<"Unknown resource type: ", "deployment">>

C19_WitnessBackend ==
    /\ Returned("query")
    /\ StringMember(call.query.JSON.members, "resourceType") = "deployment"
    /\ call.env.pods[1].err = NoErr
    /\ Len(call.env.pods[1].list) > 0
    /\ ret.err # NoErr

(***************************************************************************)
(* Concurrent calls of CalculatePodCarbon (TestCarbonCalculator/           *)
(* ThreadSafety): goroutines share the calculator, its config and the pod  *)
(* descriptor; each has its own locals.  A goroutine takes one step per    *)
(* statement that touches shared memory, and the steps of the goroutines   *)
(* interleave freely.                                                      *)
(***************************************************************************)
MaxGoroutines == 2

Goroutines == 1..MaxGoroutines

NoLocal ==
    [now |-> 0, podEnergy |-> Zero, gridIntensity |-> Zero,
     co2Emissions |-> Zero, grid |-> [err |-> FALSE, value |-> Zero]]

\* Variant: a grid intensity that was fetched is kept in the shared config
\* as the new default.
CalculatePodCarbonStepCachesGrid(label, cfg, pod, local, now, grid) ==
    LET same == [pc |-> label, cfg |-> cfg, pod |-> pod, local |-> local,
                 ret |-> NoRet]
    IN  CASE label = "energy" ->
                 LET r == calculatePodEnergyConsumption(pod)
                 IN  IF r.err # NoErr
                     THEN [same EXCEPT !.pc = "done",
                               !.local = [local EXCEPT !.now = now],
                               !.ret = [metrics |-> <<>>, err |-> r.err]]
                     ELSE [same EXCEPT !.pc = "grid",
                               !.local = [local EXCEPT !.now = now,
                                                       !.podEnergy = r.val]]
          [] label = "grid" ->
                 [same EXCEPT !.pc = "pue",
                      !.cfg = IF grid.err THEN cfg
                              ELSE [cfg EXCEPT
                                       !.DefaultGridIntensity = grid.value],
                      !.local = [local EXCEPT !.grid = grid,
                                    !.gridIntensity =
                                        ResolveGridIntensity(cfg, grid)]]
          [] label = "pue" ->
                 [same EXCEPT !.pc = "co2",
                      !.local = [local EXCEPT !.podEnergy =
                                    FMul(local.podEnergy, cfg.PUE)]]
          [] label = "co2" ->
                 [same EXCEPT !.pc = "return",
                      !.local = [local EXCEPT !.co2Emissions =
                                    FMul(local.podEnergy,
                                         local.gridIntensity)]]
          [] label = "return" ->
                 [same EXCEPT !.pc = "done",
                      !.ret = [metrics |->
                                   <<Metrics(local.now, "pod", pod.Name,
                                             pod.Namespace, pod.NodeName,
                                             local.co2Emissions,
                                             local.podEnergy,
                                             local.gridIntensity,
                                             "calculated", pod.Labels)>>,
                               err |-> NoErr]]

\* One statement of CalculatePodCarbon run by a goroutine at label: the
\* next label, the shared config and pod after it, the goroutine's locals
\* and, once it returns, what it returns.
CalculatePodCarbonStep(label, cfg, pod, local, now, grid) ==
    LET same == [pc |-> label, cfg |-> cfg, pod |-> pod, local |-> local,
                 ret |-> NoRet]
    IN  CASE label = "energy" ->
                 LET r == calculatePodEnergyConsumption(pod)
                 IN  IF r.err # NoErr
                     THEN [same EXCEPT !.pc = "done",
                               !.local = [local EXCEPT !.now = now],
                               !.ret = [metrics |-> <<>>, err |-> r.err]]
                     ELSE [same EXCEPT !.pc = "grid",
                               !.local = [local EXCEPT !.now = now,
                                                       !.podEnergy = r.val]]
          [] label = "grid" ->
                 [same EXCEPT !.pc = "pue",
                      !.local = [local EXCEPT !.grid = grid,
                                    !.gridIntensity =
                                        ResolveGridIntensity(cfg, grid)]]
          [] label = "pue" ->
                 [same EXCEPT !.pc = "co2",
                      !.local = [local EXCEPT !.podEnergy =
                                    FMul(local.podEnergy, cfg.PUE)]]
          [] label = "co2" ->
                 [same EXCEPT !.pc = "return",
                      !.local = [local EXCEPT !.co2Emissions =
                                    FMul(local.podEnergy,
                                         local.gridIntensity)]]
          [] label = "return" ->
                 [same EXCEPT !.pc = "done",
                      !.ret = [metrics |->
                                   <<Metrics(local.now, "pod", pod.Name,
                                             pod.Namespace, pod.NodeName,
                                             local.co2Emissions,
                                             local.podEnergy,
                                             local.gridIntensity,
                                             "calculated", pod.Labels)>>,
                               err |-> NoErr]]

\* The test starts the goroutines on one calculator and one pod; given
\* keeps the config and the pod as the test made them.
InitConcurrent ==
    /\ config \in Configs
    /\ \E pod \in ClusterPods :
          call = [op |-> "concurrent", pod |-> pod,
                  given |-> [config |-> config, pod |-> pod],
                  locals |-> [g \in Goroutines |-> NoLocal]]
    /\ pc = [g \in Goroutines |-> "energy"]
    /\ ret = [g \in Goroutines |-> NoRet]

\* Goroutine g runs its next statement.
GoroutineStep(g, now, grid) ==
    /\ pc[g] # "done"
    /\ LET next == CalculatePodCarbonStep(pc[g], config, call.pod,
                                          call.locals[g], now, grid)
       IN  /\ pc' = [pc EXCEPT ![g] = next.pc]
           /\ config' = next.cfg
           /\ call' = [call EXCEPT !.pod = next.pod,
                                   !.locals[g] = next.local]
           /\ ret' = [ret EXCEPT ![g] = next.ret]

NextConcurrent ==
    \E g \in Goroutines, now \in Times :
        \E grid \in (IF pc[g] = "grid" THEN GridOutcomes
                     ELSE {NoLocal.grid}) :
            GoroutineStep(g, now, grid)

SpecConcurrent == InitConcurrent /\ [][NextConcurrent]_vars

\* C20: every concurrent call of CalculatePodCarbon returns the energy and
\* the CO2 that a call on its own returns for the same pod and the same
\* answer of the grid provider, whatever the interleaving, and the shared
\* config and the pod descriptor are never written.
C20_ConcurrentCallsIndependent ==
    /\ config = call.given.config
    /\ call.pod = call.given.pod
    /\ \A g \in Goroutines :
           pc[g] = "done" =>
               LET alone == PodCarbon(call.given.config, call.locals[g].now,
                                      call.given.pod, call.locals[g].grid)
               IN  /\ ret[g].err = alone.err
                   /\ Len(ret[g].metrics) = Len(alone.metrics)
                   /\ alone.err = NoErr =>
                          /\ ret[g].metrics[1].EnergyConsumption =
                                 alone.metrics[1].EnergyConsumption
                          /\ ret[g].metrics[1].CO2Emissions =
                                 alone.metrics[1].CO2Emissions

\* All goroutines have returned a metric; the grid provider answered one
\* of them and failed for another.
C20_Witness ==
    /\ \A g \in Goroutines : pc[g] = "done" /\ ret[g].err = NoErr
    /\ \E g, h \in Goroutines :
           call.locals[g].grid.err /\ ~call.locals[h].grid.err
    /\ \A g \in Goroutines : FGt(ret[g].metrics[1].CO2Emissions, Zero)

\* Two calls in flight at different statements.
C20_WitnessInFlight ==
    \E g, h \in Goroutines : pc[g] = "pue" /\ pc[h] = "return"

(***************************************************************************)
(* CarbonDataSource as an instance: its settings with the secure options,  *)
(* and query as the promises it is made of.  query starts one collection   *)
(* per target; the collections settle one at a time in any order;          *)
(* Promise.all keeps each value at the index of its target, fulfils when   *)
(* every collection has fulfilled and rejects with the first rejection.    *)
(* In this part config holds the settings of the data source and pc the    *)
(* state of the promise that query returned.                                *)
(***************************************************************************)
\* CarbonDataSourceSecureOptions; "" stands for a missing option.
SecureOptions(kubernetesToken, awsAccessKey, awsSecretKey, azureClientId, azureClientSecret, gcpServiceAccountKey) ==
    [kubernetesToken |-> kubernetesToken, awsAccessKey |-> awsAccessKey,
     awsSecretKey |-> awsSecretKey, azureClientId |-> azureClientId,
     azureClientSecret |-> azureClientSecret,
     gcpServiceAccountKey |-> gcpServiceAccountKey]

\* new CarbonDataSource(instanceSettings, undefined)
NoSecureOptions == SecureOptions("", "", "", "", "", "")

Settings(kubernetesApiUrl, cloudProvider, enableCloudMetrics, secureJsonData) ==
    [kubernetesApiUrl |-> kubernetesApiUrl, cloudProvider |-> cloudProvider,
     enableCloudMetrics |-> enableCloudMetrics,
     secureJsonData |-> secureJsonData]

\* The data sources that queries are sent to: that of the tests and ones
\* that differ from it only in their secrets.
QuerySettings ==
    { Settings("https://kubernetes.default.svc", "aws", TRUE, secure) :
        secure \in { SecureOptions("mock-k8s-token", "mock-aws-key",
                                   "mock-aws-secret", "", "", ""),
                     SecureOptions("other-k8s-token", "other-aws-key",
                                   "other-aws-secret", "", "", ""),
                     NoSecureOptions } }

\* Variant: the error thrown on carries the Kubernetes token.
RethrowWithToken(settings, error) ==
    error \o <<settings.secureJsonData.kubernetesToken>>

\* catch (error) { console.error(...); throw error; }
Rethrow(settings, error) == error

\* The refId of the target at a position of a request.
RefIdAt(i) == <<"B", "A", "C", "D">>[i]

\* Requests whose targets are hidden or not and of a resource type that
\* is collected or is not known.
QueryRequests ==
    UNION { { [targets |-> [i \in 1..k |->
                              Target(RefIdAt(i), shape[i][1], "timeseries",
                                     shape[i][2])],
               range |-> range] :
                shape \in [1..k -> BOOLEAN \X {"cluster", "pod", "deployment"}],
                range \in {NoRange, Range(0, 1)} } :
            k \in 0..MaxTargets }

InitDataSource ==
    /\ config \in QuerySettings
    /\ pc = "idle"
    /\ call = NoCall
    /\ ret = NoRet

\* query(request): targets.map starts the collection of every target.
QueryStart(request) ==
    /\ pc = "idle"
    /\ call' = [op |-> "query-async", request |-> request,
                settled |-> [i \in 1..Len(request.targets) |-> "pending"],
                values |-> [i \in 1..Len(request.targets) |-> <<>>],
                order |-> <<>>]
    /\ pc' = "pending"
    /\ ret' = NoRet
    /\ UNCHANGED config

\* Variant: a collection that fails counts as one without frames.
TargetSettlesSwallowsError(i) ==
    /\ pc \in {"pending", "done"}
    /\ call.op = "query-async"
    /\ call.settled[i] = "pending"
    /\ \E d \in {TargetResult(call.request.targets[i], call.request.range)} :
          /\ call' = [call EXCEPT !.settled[i] = "fulfilled",
                                  !.values[i] = d.frames,
                                  !.order = Append(@, i)]
          /\ UNCHANGED <<pc, ret>>
    /\ UNCHANGED config

\* The collection of target i settles.  A rejection rejects the promise of
\* query when it is still pending; the other collections go on.
TargetSettles(i) ==
    /\ pc \in {"pending", "done"}
    /\ call.op = "query-async"
    /\ call.settled[i] = "pending"
    /\ \E d \in {TargetResult(call.request.targets[i], call.request.range)} :
          IF d.err = NoErr
          THEN /\ call' = [call EXCEPT !.settled[i] = "fulfilled",
                                       !.values[i] = d.frames,
                                       !.order = Append(@, i)]
               /\ UNCHANGED <<pc, ret>>
          ELSE /\ call' = [call EXCEPT !.settled[i] = "rejected",
                                       !.order = Append(@, i)]
               /\ IF pc = "pending"
                  THEN /\ pc' = "done"
                       /\ ret' = [frames |-> <<>>,
                                  err |-> Rethrow(config, d.err)]
                  ELSE UNCHANGED <<pc, ret>>
    /\ UNCHANGED config

\* data.flatMap(d => d.frames)
RECURSIVE FlatMap(_)
FlatMap(values) ==
    IF values = <<>> THEN <<>> ELSE Head(values) \o FlatMap(Tail(values))

\* Variant: the frames are put together in the order in which the
\* collections settled.
AllFulfilledInCompletionOrder ==
    /\ pc = "pending"
    /\ call.op = "query-async"
    /\ \A i \in 1..Len(call.request.targets) : call.settled[i] = "fulfilled"
    /\ ret' = [frames |-> FlatMap([j \in 1..Len(call.order) |->
                                      call.values[call.order[j]]]),
               err |-> NoErr]
    /\ pc' = "done"
    /\ UNCHANGED <<config, call>>

\* Every collection has fulfilled: Promise.all fulfils and query returns
\* the frames.
AllFulfilled ==
    /\ pc = "pending"
    /\ call.op = "query-async"
    /\ \A i \in 1..Len(call.request.targets) : call.settled[i] = "fulfilled"
    /\ ret' = [frames |-> FlatMap(call.values), err |-> NoErr]
    /\ pc' = "done"
    /\ UNCHANGED <<config, call>>

NextDataSource ==
    \/ /\ pc = "idle"
       /\ \E request \in QueryRequests : QueryStart(request)
    \/ /\ pc # "idle"
       /\ \E i \in 1..Len(call.request.targets) : TargetSettles(i)
    \/ AllFulfilled
    \/ Return

SpecDataSource == InitDataSource /\ [][NextDataSource]_vars

QueryResolved == pc = "done" /\ call.op = "query-async" /\ ret.err = NoErr

\* The positions of the targets of a request that are not hidden.
RECURSIVE Shown(_, _)
Shown(targets, i) ==
    IF i > Len(targets) THEN <<>>
    ELSE (IF targets[i].hide THEN <<>> ELSE <<i>>) \o Shown(targets, i + 1)

\* C21: the frames query resolves with are one per target that is not
\* hidden, each with the refId of its target, in the order of the targets
\* of the request, whatever the order in which the collections settled.
C21_FramesInTargetOrder ==
    QueryResolved =>
        LET shown == Shown(call.request.targets, 1)
        IN  /\ Len(ret.frames) = Len(shown)
            /\ \A j \in 1..Len(shown) :
                   ret.frames[j].refId = call.request.targets[shown[j]].refId

\* Two targets that are not hidden, whose collections settled in the
\* reverse of the order of the request.
C21_Witness ==
    /\ QueryResolved
    /\ Len(call.request.targets) >= 2
    /\ call.order[1] > call.order[2]
    /\ Len(ret.frames) >= 2
    /\ ret.frames[1].refId = "B"
    /\ ret.frames[2].refId = "A"

\* A hidden target before one that is not hidden.
C21_WitnessHidden ==
    /\ QueryResolved
    /\ Len(call.request.targets) >= 2
    /\ call.request.targets[1].hide
    /\ Len(ret.frames) = 1
    /\ ret.frames[1].refId = "A"

(***************************************************************************)
(* CarbonDataSource.testDatasource and the two connection tests of the     *)
(* collector.  A connection test returns the message of the Error it       *)
(* throws, or NoErr.                                                       *)
(***************************************************************************)
testKubernetesConnection(settings) ==
    IF settings.kubernetesApiUrl = ""
       /\ settings.secureJsonData.kubernetesToken = ""
    THEN <<"Kubernetes API URL or token not configured">>
    ELSE NoErr

testCloudConnection(settings) ==
    LET secureData == settings.secureJsonData
    IN  CASE settings.cloudProvider = "aws" ->
                 IF secureData.awsAccessKey = "" \/ secureData.awsSecretKey = ""
                 THEN <<"AWS credentials not configured">> ELSE NoErr
          [] settings.cloudProvider = "azure" ->
                 IF secureData.azureClientId = ""
                    \/ secureData.azureClientSecret = ""
                 THEN <<"Azure credentials not configured">> ELSE NoErr
          [] settings.cloudProvider = "gcp" ->
                 IF secureData.gcpServiceAccountKey = ""
                 THEN <<"GCP service account key not configured">>
                 ELSE NoErr
          [] OTHER -> NoErr

\* What testDatasource resolves with, the connection tests it made, in
\* order, and the error it rejects with (none).
TestResult(status, message, checks) ==
    [status |-> status, message |-> message, checks |-> checks,
     err |-> NoErr]

\* Variant: the cloud connection is tested whether or not cloud metrics
\* are enabled.
testDatasourceAlwaysCloud(settings) ==
    LET kubernetes == testKubernetesConnection(settings)
        cloud == testCloudConnection(settings)
    IN  IF kubernetes # NoErr
        THEN TestResult("error", <<"Connection failed: ", kubernetes[1]>>,
                        <<"kubernetes">>)
        ELSE IF cloud # NoErr
        THEN TestResult("error", <<"Connection failed: ", cloud[1]>>,
                        <<"kubernetes", "cloud">>)
        ELSE TestResult("success",
                 <<"Successfully connected to Kubernetes cluster and cloud provider APIs">>,
                 <<"kubernetes", "cloud">>)

testDatasource(settings) ==
    LET kubernetes == testKubernetesConnection(settings)
        cloud == testCloudConnection(settings)
    IN  IF kubernetes # NoErr
        THEN TestResult("error", <<"Connection failed: ", kubernetes[1]>>,
                        <<"kubernetes">>)
        ELSE IF ~settings.enableCloudMetrics
        THEN TestResult("success",
                 <<"Successfully connected to Kubernetes cluster and cloud provider APIs">>,
                 <<"kubernetes">>)
        ELSE IF cloud # NoErr
        THEN TestResult("error", <<"Connection failed: ", cloud[1]>>,
                        <<"kubernetes", "cloud">>)
        ELSE TestResult("success",
                 <<"Successfully connected to Kubernetes cluster and cloud provider APIs">>,
                 <<"kubernetes", "cloud">>)

\* Settings with and without the API URL, the token and the credentials of
\* the cloud provider chosen; "" is a provider that was not set.
HealthSettings ==
    { Settings(url, provider, enable,
               SecureOptions(token, keys[1], keys[2], keys[3], keys[4],
                             keys[5])) :
        url \in {"", "https://kubernetes.default.svc"},
        provider \in {"aws", "azure", "gcp", ""}, enable \in BOOLEAN,
        token \in {"", "mock-k8s-token"},
        keys \in {"", "mock-aws-key"} \X {"", "mock-aws-secret"}
                 \X {"", "client-id"} \X {"", "client-secret"}
                 \X {"", "service-account-key"} }

InitHealth ==
    /\ config \in HealthSettings
    /\ pc = "idle"
    /\ call = NoCall
    /\ ret = NoRet

TestDatasourceCall ==
    /\ pc = "idle"
    /\ \E result \in {testDatasource(config)} :
          /\ call' = [op |-> "testDatasource", checks |-> result.checks]
          /\ ret' = [status |-> result.status, message |-> result.message,
                     err |-> result.err]
    /\ pc' = "done"
    /\ UNCHANGED config

NextHealth ==
    \/ TestDatasourceCall
    \/ Return

SpecHealth == InitHealth /\ [][NextHealth]_vars

\* The message of the check that fails for the settings, or NoErr.
KubernetesFailure(settings) ==
    IF settings.kubernetesApiUrl # ""
       \/ settings.secureJsonData.kubernetesToken # ""
    THEN NoErr
    ELSE <<"Kubernetes API URL or token not configured">>

CloudFailure(settings) ==
    LET secure == settings.secureJsonData
    IN  IF settings.cloudProvider = "aws"
           /\ "" \in {secure.awsAccessKey, secure.awsSecretKey}
        THEN <<"AWS credentials not configured">>
        ELSE IF settings.cloudProvider = "azure"
                /\ "" \in {secure.azureClientId, secure.azureClientSecret}
        THEN <<"Azure credentials not configured">>
        ELSE IF settings.cloudProvider = "gcp"
                /\ secure.gcpServiceAccountKey = ""
        THEN <<"GCP service account key not configured">>
        ELSE NoErr

C22_WitnessCloudOff ==
    /\ Returned("testDatasource")
    /\ ~config.enableCloudMetrics
    /\ CloudFailure(config) # NoErr
    /\ ret.status = "success"

(***************************************************************************)
(* ParseQuery applied to payloads: text that is not JSON, and objects in   *)
(* which a key is there with a value of the field's type, with a value of  *)
(* another type, with null, or not there.                                  *)
(***************************************************************************)
Absent == JSONValue("absent", "", <<>>, {})

PayloadChoices ==
    [refId : {JString("A"), JNumber, Absent},
     queryType : {JString("timeseries"), JString("heatmap"), JNull},
     resourceType : {JString("cluster"), JString("deployment")},
     aggregation : {JString("sum"), JString("median")},
     groupBy : {JArray(<<"namespace">>), JString("namespace"), Absent},
     filters : {JObject({<<"namespace", "production">>}), Absent},
     timeRange : {JObject({<<"from", "2023-01-01T00:00:00Z">>,
                           <<"to", "2023-01-02T00:00:00Z">>}),
                  JObject({}), JNull}]

Payloads ==
    {Malformed} \cup
    { Document([key \in {k \in DOMAIN choice : choice[k] # Absent} |->
                    choice[key]]) : choice \in PayloadChoices }

ParseQueryCall(queryJSON) ==
    /\ pc = "idle"
    /\ call' = [op |-> "ParseQuery", queryJSON |-> queryJSON]
    /\ ret' = ParseQuery(queryJSON)
    /\ pc' = "done"
    /\ UNCHANGED config

NextParse ==
    \/ /\ pc = "idle"
       /\ \E queryJSON \in Payloads : ParseQueryCall(queryJSON)
    \/ Return

SpecParse == Init /\ [][NextParse]_vars

\* The struct field of a key of the payload.
FieldOf(key) ==
    CASE key = "refId" -> "RefID"
      [] key = "queryType" -> "QueryType"
      [] key = "resourceType" -> "ResourceType"
      [] key = "aggregation" -> "Aggregation"
      [] key = "groupBy" -> "GroupBy"
      [] key = "filters" -> "Filters"
      [] key = "timeRange" -> "TimeRange"

\* The type a key of a query payload has.
TypeOf(key) ==
    IF key \in {"refId", "queryType", "resourceType", "aggregation"}
    THEN "string"
    ELSE IF key = "groupBy" THEN "array" ELSE "object"

\* A payload is well formed when it is JSON and every value it gives is of
\* the type of its key (or null).
WellFormed(queryJSON) ==
    /\ ~queryJSON.malformed
    /\ \A key \in DOMAIN queryJSON.members :
           queryJSON.members[key].type \in {TypeOf(key), "null"}

\* C23: ParseQuery of a payload that is not well formed returns an error
\* and no query (nil).  Of a well-formed payload it returns a query and no
\* error, and every value the payload gives is the value of the query's
\* field, whether or not it is one of the allowed values.
C23_ParseQuery ==
    Returned("ParseQuery") =>
        LET members == call.queryJSON.members
        IN  IF ~WellFormed(call.queryJSON)
            THEN ret.err # NoErr /\ ret.query = <<>>
            ELSE /\ ret.err = NoErr
                 /\ Len(ret.query) = 1
                 /\ \A key \in DOMAIN members :
                       LET value == members[key]
                           field == ret.query[1][FieldOf(key)]
                       IN  CASE value.type = "string" -> field = value.string
                             [] value.type = "array" -> field = value.array
                             [] value.type = "object" /\ key = "filters" ->
                                    field = value.object
                             [] value.type = "object" /\ key = "timeRange" ->
                                    /\ \A pair \in value.object :
                                          pair[1] = "from" =>
                                              field.From = pair[2]
                                    /\ \A pair \in value.object :
                                          pair[1] = "to" => field.To = pair[2]
                             [] OTHER -> TRUE

\* A well-formed payload whose query type, resource type and aggregation
\* are none of the allowed values.
C23_Witness ==
    /\ Returned("ParseQuery")
    /\ ret.err = NoErr
    /\ ret.query[1].RefID = "A"
    /\ ret.query[1].QueryType = "heatmap"
    /\ ret.query[1].ResourceType = "deployment"
    /\ ret.query[1].Aggregation = "median"
    /\ ret.query[1].GroupBy = <<"namespace">>
    /\ ret.query[1].Filters = {<<"namespace", "production">>}
    /\ ret.query[1].TimeRange.To = "2023-01-02T00:00:00Z"

\* The payload is not JSON.
C23_WitnessMalformed ==
    /\ Returned("ParseQuery")
    /\ call.queryJSON.malformed
    /\ ret.err = <<"failed to parse query">>
    /\ ret.query = <<>>

(***************************************************************************)
(* The labels of the metrics: nodes with every combination of the three    *)
(* labels read, namespaces and pods with and without labels.               *)
(***************************************************************************)
LabelChoices ==
    [beta : {"absent", "", "m5.large"}, stable : {"absent", "m5.xlarge"},
     zone : {"absent", "us-west-2a"}]

LabelKey(name) ==
    CASE name = "beta" -> "beta.kubernetes.io/instance-type"
      [] name = "stable" -> "node.kubernetes.io/instance-type"
      [] name = "zone" -> "topology.kubernetes.io/zone"

LabelledNodes ==
    { Node("test-node-1",
           [key \in { LabelKey(name) :
                        name \in {n \in DOMAIN choice :
                                    choice[n] # "absent"} } |->
               choice[CHOOSE name \in DOMAIN choice : LabelKey(name) = key]],
           2000, 8192) : choice \in LabelChoices }

LabelledPods ==
    { [pod EXCEPT !.Labels = labels] :
        pod \in ClusterPods,
        labels \in {NoLabels, [key \in {"app"} |-> "test-app"]} }

NextLabels ==
    \/ /\ pc = "idle"
       /\ \E now \in Times, namespace \in Namespaces, pods \in PodLists,
             grid \in GridOutcomes :
             CalculateNamespaceCarbon(now, namespace, pods, grid)
    \/ /\ pc = "idle"
       /\ \E now \in Times, node \in LabelledNodes, pods \in PodLists,
             lookup \in SpecOutcomes, grid \in GridOutcomes :
             CalculateNodeCarbon(now, node, pods, lookup, grid)
    \/ /\ pc = "idle"
       /\ \E now \in Times, pod \in LabelledPods, grid \in GridOutcomes :
             CalculatePodCarbon(now, pod, grid)
    \/ Return

SpecLabels == Init /\ [][NextLabels]_vars

\* C24: the labels of a node metric are instance-type and zone.
\* instance-type is the node's beta.kubernetes.io/instance-type label when
\* the node has it, else its node.kubernetes.io/instance-type label, else
\* "unknown"; zone is its topology.kubernetes.io/zone label, "" when the
\* node has none.  A namespace metric has the labels of the namespace and a
\* pod metric the labels of the pod.
C24_MetricLabels ==
    /\ Succeeded("node") =>
           LET labels == ret.metrics[1].Labels
               node == call.node.Labels
           IN  /\ DOMAIN labels = {"instance-type", "zone"}
               /\ "beta.kubernetes.io/instance-type" \in DOMAIN node =>
                      labels["instance-type"] =
                          node["beta.kubernetes.io/instance-type"]
               /\ (/\ "beta.kubernetes.io/instance-type" \notin DOMAIN node
                   /\ "node.kubernetes.io/instance-type" \in DOMAIN node) =>
                      labels["instance-type"] =
                          node["node.kubernetes.io/instance-type"]
               /\ (/\ "beta.kubernetes.io/instance-type" \notin DOMAIN node
                   /\ "node.kubernetes.io/instance-type" \notin DOMAIN node) =>
                      labels["instance-type"] = "unknown"
               /\ "topology.kubernetes.io/zone" \in DOMAIN node =>
                      labels["zone"] = node["topology.kubernetes.io/zone"]
               /\ "topology.kubernetes.io/zone" \notin DOMAIN node =>
                      labels["zone"] = ""
    /\ Succeeded("namespace") =>
           ret.metrics[1].Labels = call.namespace.Labels
    /\ Succeeded("pod") => ret.metrics[1].Labels = call.pod.Labels

\* A node with both instance-type labels and a zone.
C24_Witness ==
    /\ Succeeded("node")
    /\ "node.kubernetes.io/instance-type" \in DOMAIN call.node.Labels
    /\ ret.metrics[1].Labels["instance-type"] = "m5.large"
    /\ ret.metrics[1].Labels["zone"] = "us-west-2a"

\* A node without labels.
C24_WitnessUnknown ==
    /\ Succeeded("node")
    /\ call.node.Labels = NoLabels
    /\ ret.metrics[1].Labels["instance-type"] = "unknown"
    /\ ret.metrics[1].Labels["zone"] = ""

\* A pod with a label.
C24_WitnessPod ==
    /\ Succeeded("pod")
    /\ ret.metrics[1].Labels = [key \in {"app"} |-> "test-app"]

QueryRejected == pc = "done" /\ call.op = "query-async" /\ ret.err # NoErr

\* The secure credentials a data source is configured with.
Secrets(settings) ==
    {settings.secureJsonData.kubernetesToken,
     settings.secureJsonData.awsAccessKey,
     settings.secureJsonData.awsSecretKey} \ {""}

\* C25: an error CarbonDataSource.query rejects with has no part that is
\* the Kubernetes token, the AWS access key or the AWS secret key of the
\* data source; it is the error the collection of one of the targets
\* shown gives for that target and the time range, whatever the
\* credentials are.
C25_ErrorsWithoutSecrets ==
    QueryRejected =>
        /\ \A i \in DOMAIN ret.err : ret.err[i] \notin Secrets(config)
        /\ \E i \in 1..Len(call.request.targets) :
              /\ ~call.request.targets[i].hide
              /\ ret.err = TargetResult(call.request.targets[i],
                                        call.request.range).err

\* A data source with credentials rejects a query for a resource type that
\* is not known.
C25_Witness ==
    /\ QueryRejected
    /\ Secrets(config) = {"mock-k8s-token", "mock-aws-key", "mock-aws-secret"}
    /\ ret.err = <<"Unknown resource type: ", "deployment">>

(***************************************************************************)
(* calculateNodeEnergyConsumption on nodes that report no CPU or memory    *)
(* capacity and on pods whose containers request no CPU or a negative      *)
(* quantity of it.                                                         *)
(***************************************************************************)
DegenerateNodes ==
    { Node("test-node-1", NoLabels, cpu, memory) :
        cpu \in {0, 2000}, memory \in {0, 8192} }

DegeneratePods ==
    { Pod(name, "production", nodeName, <<Container(cpu, 1024)>>) :
        name \in {"test-pod-1", "test-pod-2"},
        nodeName \in {"test-node-1", "test-node-2"},
        cpu \in {-500, 0, 500, 4000} }

DegeneratePodLists == DistinctSeqsUpTo(DegeneratePods, MaxPods)

\* A call of calculateNodeEnergyConsumption; utilizationFactor is the local
\* of that name.
NodeEnergyCall(node, pods, lookup) ==
    /\ pc = "idle"
    /\ call' = [op |-> "nodeEnergy", node |-> node, pods |-> pods,
                lookup |-> lookup,
                utilizationFactor |->
                    UtilizationFactor(NodeCPUUtilization(node, pods))]
    /\ ret' = calculateNodeEnergyConsumption(node, pods, lookup)
    /\ pc' = "done"
    /\ UNCHANGED config

NextNodeEnergy ==
    \/ /\ pc = "idle"
       /\ \E node \in DegenerateNodes, pods \in DegeneratePodLists,
             lookup \in SpecOutcomes :
             NodeEnergyCall(node, pods, lookup)
    \/ Return

SpecNodeEnergy == Init /\ [][NextNodeEnergy]_vars

\* C26: the utilization factor is a number from 0.3 to 1.0 for every node
\* and every list of pods, and the node energy lies between 0.3 and 1.0
\* times the TDP (in kWh for one hour: TDP / 1000).
C26_UtilizationFactorBounded ==
    Returned("nodeEnergy") =>
        LET tdp == F(ResolveSpecs(InstanceTypeOf(call.node),
                                  call.lookup).TDP)
        IN  /\ IsFin(call.utilizationFactor)
            /\ FLe(Dec(3, 10), call.utilizationFactor)
            /\ FLe(call.utilizationFactor, F(1))
            /\ FLe(FDiv(FMul(Dec(3, 10), tdp), F(1000)), ret.val)
            /\ FLe(ret.val, FDiv(tdp, F(1000)))

\* What the code keeps: the factor is above 1.0 for no input.
C26_FactorAtMostOneOrNaN ==
    Returned("nodeEnergy") =>
        \/ IsNaN(call.utilizationFactor)
        \/ FLe(call.utilizationFactor, F(1))

\* A node without CPU capacity and without pods: the factor is not a
\* number.
C26_WitnessNaN ==
    /\ Returned("nodeEnergy")
    /\ call.node.Capacity.cpu = 0
    /\ call.pods = <<>>
    /\ IsNaN(call.utilizationFactor)
    /\ IsNaN(ret.val)

\* A negative summed request: the factor is below 0.3.
C26_WitnessNegative ==
    /\ Returned("nodeEnergy")
    /\ call.node.Capacity.cpu = 2000
    /\ FLt(call.utilizationFactor, Dec(3, 10))

(***************************************************************************)
(* QueryData of the Go backend: the queries of a request are answered one  *)
(* after the other, each against what the cluster answers at that time,    *)
(* and the responses are kept by RefID.                                    *)
(***************************************************************************)
MaxQueries == 2

\* response.Responses[refID] = res
Put(responses, refID, res) ==
    [key \in DOMAIN responses \cup {refID} |->
        IF key = refID THEN res ELSE responses[key]]

DataResponse(response) == [frames |-> response.frames, err |-> response.err]

\* Variant: the loop ends at the first query whose response has an error.
RECURSIVE QueryDataLoopStopsOnError(_, _, _, _, _, _)
QueryDataLoopStopsOnError(cfg, now, queries, envs, i, responses) ==
    IF i > Len(queries) THEN responses
    ELSE LET res == DataResponse(query(cfg, now, queries[i], envs[i]))
         IN  IF res.err # NoErr THEN Put(responses, queries[i].RefID, res)
             ELSE QueryDataLoopStopsOnError(cfg, now, queries, envs, i + 1,
                      Put(responses, queries[i].RefID, res))

\* for _, q := range req.Queries
RECURSIVE QueryDataLoop(_, _, _, _, _, _)
QueryDataLoop(cfg, now, queries, envs, i, responses) ==
    IF i > Len(queries) THEN responses
    ELSE QueryDataLoop(cfg, now, queries, envs, i + 1,
             Put(responses, queries[i].RefID,
                 DataResponse(query(cfg, now, queries[i], envs[i]))))

QueryData(cfg, now, queries, envs) ==
    [responses |-> QueryDataLoop(cfg, now, queries, envs, 1,
                                 [key \in {} |-> DataResponse(
                                     [frames |-> <<>>, err |-> NoErr])]),
     err |-> NoErr]

\* A query with its RefID and what the cluster answers while it is served:
\* GetPods fails, lists a scheduled pod, or lists a pod that is pending.
QueryDataEnvs ==
    { Env(Listed(<<>>), Listed(<<>>), <<pods>>, <<>>,
          [i \in 1..Len(pods.list) |-> [err |-> FALSE, value |-> F(400)]]) :
        pods \in {Failed(<<"GetPods failed">>),
                  Listed(<<PodNamed("test-pod-1")>>),
                  Listed(<<PodNamed("pending-pod")>>)} }

QueryDataItems ==
    UNION { { [query |-> DataQuery(refID, Malformed),
               env |-> CHOOSE env \in QueryDataEnvs : env.pods[1].err # NoErr],
              [query |-> DataQuery(refID, Encode(Query(refID, "timeseries",
                                                       "deployment", "sum"))),
               env |-> CHOOSE env \in QueryDataEnvs :
                           env.pods[1].err # NoErr] }
            \cup
            { [query |-> DataQuery(refID, Encode(Query(refID, "timeseries",
                                                       "pod", "sum"))),
               env |-> env] : env \in QueryDataEnvs } :
            refID \in {"A", "B"} }

QueryDataCall(now, items) ==
    /\ pc = "idle"
    /\ \E response \in
           { QueryData(config, now, [i \in 1..Len(items) |-> items[i].query],
                       [i \in 1..Len(items) |-> items[i].env]) } :
          /\ call' = [op |-> "QueryData", now |-> now,
                      queries |-> [i \in 1..Len(items) |-> items[i].query],
                      envs |-> [i \in 1..Len(items) |-> items[i].env]]
          /\ ret' = response
    /\ pc' = "done"
    /\ UNCHANGED config

NextQueryData ==
    \/ /\ pc = "idle"
       /\ \E now \in Times, items \in SeqsUpTo(QueryDataItems, MaxQueries) :
             QueryDataCall(now, items)
    \/ Return

SpecQueryData == Init /\ [][NextQueryData]_vars

\* C27: QueryData returns no error and a response for the RefID of every
\* query.  The response kept for a query (the last one of its RefID) has
\* the frames and the error that query gives on its own, whatever the
\* other queries of the request gave.
C27_QueriesIndependent ==
    Returned("QueryData") =>
        /\ ret.err = NoErr
        /\ DOMAIN ret.responses =
               { call.queries[i].RefID : i \in 1..Len(call.queries) }
        /\ \A i \in 1..Len(call.queries) :
              (\A j \in (i + 1)..Len(call.queries) :
                   call.queries[j].RefID # call.queries[i].RefID) =>
                  LET alone == query(config, call.now, call.queries[i],
                                     call.envs[i])
                  IN  /\ ret.responses[call.queries[i].RefID].frames =
                             alone.frames
                      /\ ret.responses[call.queries[i].RefID].err = alone.err

\* The first query does not parse, the second one is answered with a frame.
C27_Witness ==
    /\ Returned("QueryData")
    /\ Len(call.queries) = 2
    /\ call.queries[1].RefID = "A"
    /\ call.queries[2].RefID = "B"
    /\ ret.responses["A"].err = <<"failed to parse query">>
    /\ ret.responses["A"].frames = <<>>
    /\ ret.responses["B"].err = NoErr
    /\ Len(ret.responses["B"].frames) = 1

\* The collector of the first query fails, the second query has a resource
\* type that is not known: both entries carry their own error.
C27_WitnessBothFail ==
    /\ Returned("QueryData")
    /\ Len(call.queries) = 2
    /\ call.queries[1].RefID = "A"
    /\ call.queries[2].RefID = "B"
    /\ ret.responses["A"].err = <<"GetPods failed">>
    /\ ret.responses["B"].err = <<"unknown resource type: ", "deployment">>

\* The targets of the request in progress whose collection fails.
Failing ==
    { i \in 1..Len(call.request.targets) :
        TargetResult(call.request.targets[i], call.request.range).err
            # NoErr }

\* C28: when the collection of a target of the request fails, query
\* delivers no frames: once it has settled it has rejected, with the error
\* of the failing collection that settled first, and it has rejected as
\* soon as one collection has, whatever the other collections did or will
\* do.
C28_AllOrNothing ==
    (pc # "idle" /\ call.op = "query-async" /\ Failing # {}) =>
        /\ pc = "done" => QueryRejected /\ ret.frames = <<>>
        /\ (\E i \in Failing : call.settled[i] # "pending") =>
               /\ QueryRejected
               /\ \E j \in 1..Len(call.order) :
                     /\ call.order[j] \in Failing
                     /\ \A k \in 1..(j - 1) : call.order[k] \notin Failing
                     /\ ret.err = TargetResult(
                                      call.request.targets[call.order[j]],
                                      call.request.range).err

\* The collection of the first target has fulfilled with a frame, then the
\* one of the second target failed: no frame is delivered.
C28_Witness ==
    /\ QueryRejected
    /\ call.order = <<1, 2>>
    /\ call.settled[1] = "fulfilled"
    /\ Len(call.values[1]) = 1
    /\ call.settled[2] = "rejected"
    /\ ret.frames = <<>>
    /\ ret.err = <<"Unknown resource type: ", "deployment">>

\* The query has rejected and the collection of the other target has not
\* settled.
C28_WitnessPending ==
    /\ QueryRejected
    /\ Len(call.request.targets) = 2
    /\ call.settled[2] = "rejected"
    /\ call.settled[1] = "pending"
    /\ 1 \notin Failing
    /\ ret.frames = <<>>

(***************************************************************************)
(* Pod queries of the Go backend against listings of scheduled and         *)
(* pending pods in every order.                                            *)
(***************************************************************************)
PodListings ==
    DistinctSeqsUpTo({PodNamed("test-pod-1"), PodNamed("pending-pod"),
                      PodNamed("test-pod-4")}, MaxPods + 1)

PodQueryEnvs ==
    {Env(Listed(<<>>), Listed(<<>>), <<Failed(<<"GetPods failed">>)>>, <<>>,
         <<>>)} \cup
    UNION { { Env(Listed(<<>>), Listed(<<>>), <<Listed(pods)>>, <<>>, g) :
                g \in [1..Len(pods) -> GridOutcomes] } :
            pods \in PodListings }

PodQueries ==
    { DataQuery("A", Encode(Query("A", queryType, "pod", "sum"))) :
        queryType \in {"timeseries", "table", "single-value"} }

NextPodQuery ==
    \/ /\ pc = "idle"
       /\ \E now \in Times, dataQuery \in PodQueries, env \in PodQueryEnvs :
             QueryCall(now, dataQuery, env)
    \/ Return

SpecPodQuery == Init /\ [][NextPodQuery]_vars

\* The positions of the pods of a listing that are scheduled to a node.
RECURSIVE Scheduled(_, _)
Scheduled(pods, i) ==
    IF i > Len(pods) THEN <<>>
    ELSE (IF pods[i].NodeName = "" THEN <<>> ELSE <<i>>)
         \o Scheduled(pods, i + 1)

\* C29: when GetPods lists the pods, collectPodMetrics returns no error,
\* whether or not pods of the listing are unscheduled.  The frames are
\* those of one metric for each scheduled pod, in the order of the
\* listing; with no scheduled pod in the listing there is no frame.
C29_UnscheduledPodsLeftOut ==
    (/\ Returned("query")
     /\ call.collector = "collectPodMetrics"
     /\ call.env.pods[1].err = NoErr) =>
        LET pods == call.env.pods[1].list
            scheduled == Scheduled(pods, 1)
            metrics ==
                [j \in 1..Len(scheduled) |->
                    PodCarbon(config, call.now, pods[scheduled[j]],
                              call.env.grids[scheduled[j]]).metrics[1]]
        IN  /\ ret.err = NoErr
            /\ scheduled = <<>> => ret.frames = <<>>
            /\ scheduled # <<>> =>
                   ret.frames =
                       ConvertToDataFrames(metrics,
                           ParseQuery(call.query.JSON).query[1]).frames

\* A pending pod between two scheduled pods: the table has the two
\* scheduled pods in the order of the listing.
C29_Witness ==
    /\ Returned("query")
    /\ call.collector = "collectPodMetrics"
    /\ call.env.pods[1].err = NoErr
    /\ Len(call.env.pods[1].list) = 3
    /\ call.env.pods[1].list[2].NodeName = ""
    /\ ret.err = NoErr
    /\ Len(ret.frames) = 1
    /\ ret.frames[1].Meta.Type = "FrameTypeTable"
    /\ ret.frames[1].Fields[1].Values = <<"test-pod-4", "test-pod-1">>

\* The listing has the pending pod only: no frame and no error.
C29_WitnessAllLeftOut ==
    /\ Returned("query")
    /\ call.collector = "collectPodMetrics"
    /\ call.env.pods[1].err = NoErr
    /\ Len(call.env.pods[1].list) = 1
    /\ call.env.pods[1].list[1].NodeName = ""
    /\ ret.err = NoErr
    /\ ret.frames = <<>>

\* C30: for a list of metrics that is not empty and a query type that is
\* not timeseries, table or single-value (the empty string is one),
\* ConvertToDataFrames returns no error and the frames the same metrics
\* give for the query type timeseries: one time-series frame with the
\* columns time, co2_emissions, energy_consumption and grid_intensity.
C30_UnknownQueryTypeIsTimeSeries ==
    (/\ Formatted
     /\ call.metrics # <<>>
     /\ call.query.QueryType \notin {"timeseries", "table", "single-value"}) =>
        /\ ret.err = NoErr
        /\ ret.frames =
               ConvertToDataFrames(call.metrics,
                   [call.query EXCEPT !.QueryType = "timeseries"]).frames
        /\ Len(ret.frames) = 1
        /\ ret.frames[1].Meta.Type = "FrameTypeTimeSeriesMulti"
        /\ [c \in 1..Len(ret.frames[1].Fields) |->
               ret.frames[1].Fields[c].Name] =
               <<"time", "co2_emissions", "energy_consumption",
                 "grid_intensity">>
        /\ ret.frames[1].Fields[2].Values = Column(call.metrics, "CO2Emissions")

\* Two metrics and the query type heatmap.
C30_Witness ==
    /\ Formatted
    /\ Len(call.metrics) = 2
    /\ call.query.QueryType = "heatmap"
    /\ ret.err = NoErr
    /\ ret.frames[1].Meta.Type = "FrameTypeTimeSeriesMulti"
    /\ Len(ret.frames[1].Fields[1].Values) = 2

\* The query type is the empty string.
C30_WitnessEmptyType ==
    /\ Formatted
    /\ call.metrics # <<>>
    /\ call.query.QueryType = ""
    /\ ret.frames[1].Meta.Type = "FrameTypeTimeSeriesMulti"

====
